---- MODULE Spec2Model ----
(***************************************************************************)
(* A model of the request and pagination layer of dataretrieval:           *)
(*   - waterdata/utils.py  _walk_pages and its helpers (SpecWalk),          *)
(*   - utils.py            to_str and query (SpecQuery),                    *)
(*   - nwis.py / waterdata top-level calls and their metadata (SpecApi),    *)
(*   - nwis.py parsers and the table formatters (SpecParse).                *)
(* Every specification shares the variables below; a specification leaves  *)
(* the variables of the other components at their initial values.           *)
(***************************************************************************)
EXTENDS Integers, Sequences, FiniteSets, TLC

VARIABLES
    \* ---- _walk_pages (waterdata/utils.py) ----
    wpc,            \* position of the walker: "idle", "loop", "returned", "raised"
    req,            \* the prepared request handed to the walker
    close_client,   \* TRUE iff the walker created the session itself
    client_open,    \* TRUE while the session in use has not been closed
    sent,           \* the requests issued so far, in order
    pages,          \* the service answers received so far, in order
    dfs,            \* the rows accumulated so far
    curr_url,       \* the URL of the next page to fetch, or NoUrl
    error_text,     \* the local error_text: Unbound until line 590 assigns it
    initial_response, \* index into pages of the stored first response, 0 if unset
    warned,         \* the warnings emitted by the walker, in order
    walk_out,       \* the outcome of the walk
    \* ---- query (utils.py) ----
    qpc,            \* position of query: "idle", "sent", "done"
    q_in,           \* the call: url, the caller's payload, delimiter
    http_log,       \* the HTTP requests issued through requests.get, in order
    q_resp,         \* the service's answer to the last request
    q_out,          \* the outcome of query
    \* ---- top-level calls and their metadata (nwis.py, waterdata/api.py) ----
    apc,            \* position of the caller: "idle", "waiting", "returned", "raised"
    call,           \* the top-level call being made
    api_out,        \* the error of the call, if it raised
    md,             \* the metadata object the call returned
    accesses,       \* the accesses of site_info / variable_info so far, with results
    lookups,        \* the secondary lookup requests issued so far
    \* ---- the parsers and table formatters (nwis.py, waterdata/utils.py) ----
    ppc,            \* position of the function applied: "idle", "ready", "done"
    p_in,           \* the function and the argument it is given
    p_out,          \* what the function returned or raised
    \* ---- module-level and class-level state (nldi.py, streamstats.py) ----
    available_data_sources, \* nldi._AVAILABLE_DATA_SOURCES
    nldi_calls,     \* the NLDI calls made so far: arguments, answers, requests, outcome
    watershed_cls,  \* the attribute _workspaceID of the class Watershed
    watersheds,     \* the values get_watershed returned so far, as they were when returned
    cached_base_url, \* waterdata_helpers._cached_base_url
    base_urls       \* the URLs _base_url returned so far

walk_vars == <<wpc, req, close_client, client_open, sent, pages, dfs, curr_url,
               error_text, initial_response, warned, walk_out>>
query_vars == <<qpc, q_in, http_log, q_resp, q_out>>
api_vars == <<apc, call, api_out, md, accesses, lookups>>
parse_vars == <<ppc, p_in, p_out>>
module_vars == <<available_data_sources, nldi_calls, watershed_cls, watersheds,
                 cached_base_url, base_urls>>
vars == <<walk_vars, query_vars, api_vars, parse_vars, module_vars>>

(***************************************************************************)
(* Bounds of the model.                                                    *)
(***************************************************************************)
MaxPages == 3       \* the most requests one walk issues
MaxAccess == 2      \* the most accesses of a lazy property on one metadata object
MaxRows == 3        \* the most rows of a table given to format_response
MaxComments == 2    \* the most comment lines of an annotated-table text
MaxSeries == 3      \* the most series of a time-series document
MaxProps == 3       \* the most names of a requested property list
MaxCalls == 3       \* the most calls made in one process

(***************************************************************************)
(* Sentinels.                                                              *)
(***************************************************************************)
NoUrl == "<none>"
Unbound == "<unbound>"
Absent == -1            \* body.get("numberReturned") finds no such key

(***************************************************************************)
(* The paginated service: what it can answer to one request.               *)
(***************************************************************************)
NextHrefs == {"items?cursor=a", "items?cursor=b"}
SelfHref == "items?self"

Link(rel, href) == [rel |-> rel, href |-> href]

\* the "links" array of a page body
LinkArrays ==
    {<<>>, <<Link("self", SelfHref)>>}
    \cup {<<Link("self", SelfHref), Link("next", h)>> : h \in NextHrefs}

FeatureLists == {<<>>, <<"r1">>, <<"r2", "r3">>}

\* numberReturned counts the features of the page; a page without features
\* declares zero or leaves the field out.
NumberReturnedOf(features) ==
    IF features = <<>> THEN {0, Absent} ELSE {Len(features)}

Statuses == {200, 403, 429, 500}

\* kind "exc": the HTTP client raised while sending (no response object).
\* kind "resp": a response; json_ok is FALSE when resp.json() raises.
SendFailure ==
    [kind |-> "exc", status |-> 0, json_ok |-> FALSE, nr |-> Absent,
     features |-> <<>>, links |-> <<>>]

Response(status, json_ok, nr, features, links) ==
    [kind |-> "resp", status |-> status, json_ok |-> json_ok, nr |-> nr,
     features |-> features, links |-> links]

Answers ==
    {SendFailure}
    \cup {Response(s, j, Absent, <<>>, <<>>) : s \in Statuses \ {200}, j \in BOOLEAN}
    \cup {Response(200, FALSE, Absent, <<>>, <<>>)}
    \cup UNION {UNION {{Response(200, TRUE, n, f, l) : n \in NumberReturnedOf(f)}
                       : l \in LinkArrays} : f \in FeatureLists}

(***************************************************************************)
(* Helpers of the walker.  A helper that can raise returns a record with   *)
(* field raised.                                                           *)
(***************************************************************************)
Truthy(nr) == nr # Absent /\ nr # 0

\* _error_body: 429 and 403 have fixed texts, any other status decodes the body.
error_body(resp) ==
    IF resp.status = 429 THEN [raised |-> FALSE, text |-> "429: Too many requests made"]
    ELSE IF resp.status = 403 THEN [raised |-> FALSE, text |-> "403: Query request denied"]
    ELSE IF resp.json_ok THEN [raised |-> FALSE, text |-> "status: code. description"]
    ELSE [raised |-> TRUE, text |-> Unbound]

RECURSIVE first_next_href(_, _)
first_next_href(links, i) ==
    IF i > Len(links) THEN NoUrl
    ELSE IF links[i].rel = "next" THEN links[i].href
    ELSE first_next_href(links, i + 1)

next_req_url_ignoring_count(resp) ==
    IF ~resp.json_ok THEN [raised |-> TRUE, url |-> NoUrl]
    ELSE [raised |-> FALSE, url |-> first_next_href(resp.links, 1)]

\* _next_req_url: None for an empty page, else the href of the first "next" link.
next_req_url(resp) ==
    IF ~resp.json_ok THEN [raised |-> TRUE, url |-> NoUrl]
    ELSE IF ~Truthy(resp.nr) THEN [raised |-> FALSE, url |-> NoUrl]
    ELSE [raised |-> FALSE, url |-> first_next_href(resp.links, 1)]

\* _get_resp_data: the rows of a page, none for an empty page.
get_resp_data(resp) ==
    IF ~resp.json_ok THEN [raised |-> TRUE, rows |-> <<>>]
    ELSE IF ~Truthy(resp.nr) THEN [raised |-> FALSE, rows |-> <<>>]
    ELSE [raised |-> FALSE, rows |-> resp.features]

first_page_rejected_never(resp) == FALSE

\* line 567: the first response is rejected unless its status is 200
first_page_rejected(resp) == resp.status # 200

\* while curr_url: (None and "" are falsy)
url_truthy(u) == u # NoUrl /\ u # ""

(***************************************************************************)
(* The prepared requests a caller can hand to the walker.                  *)
(***************************************************************************)
FirstUrl == "items"
Headers == [ua |-> "python-dataretrieval"]
PreparedRequests ==
    {[method |-> "GET", url |-> FirstUrl, headers |-> Headers, body |-> "<no body>"],
     [method |-> "POST", url |-> FirstUrl, headers |-> Headers, body |-> "cql2"]}

NoOutcome == [kind |-> "none", rows |-> <<>>, response |-> 0, exc |-> "<none>"]
Returned(rows, response) ==
    [kind |-> "returned", rows |-> rows, response |-> response, exc |-> "<none>"]
Raised(exc) == [kind |-> "raised", rows |-> <<>>, response |-> 0, exc |-> exc]

InitWalkVars ==
    /\ wpc = "idle"
    /\ req \in PreparedRequests
    /\ close_client \in BOOLEAN      \* client is None, or a session of the caller
    /\ client_open = TRUE
    /\ sent = <<>>
    /\ pages = <<>>
    /\ dfs = <<>>
    /\ curr_url = NoUrl
    /\ error_text = Unbound
    /\ initial_response = 0
    /\ warned = <<>>
    /\ walk_out = NoOutcome

\* variant of after_finally that closes whatever session was used
after_finally_always_closes(open) == FALSE

\* finally: if close_client: client.close()
after_finally(open) == IF close_client THEN FALSE ELSE open

\* leaving _walk_pages with an exception
walk_raise(exc) ==
    /\ wpc' = "raised"
    /\ walk_out' = Raised(exc)
    /\ client_open' = after_finally(client_open)

\* variant of walk_return that hands back the response of the last page
walk_return_last(rows, first) ==
    /\ wpc' = "returned"
    /\ walk_out' = Returned(rows, Len(pages'))
    /\ client_open' = after_finally(client_open)

\* return dfs, initial_response
walk_return(rows, first) ==
    /\ wpc' = "returned"
    /\ walk_out' = Returned(rows, first)
    /\ client_open' = after_finally(client_open)

\* lines 561-580 (and 600-603 when the first page ends the walk)
WalkFirstPage ==
    /\ wpc = "idle"
    /\ \E a \in Answers :
        /\ sent' = <<[method |-> req.method, url |-> req.url,
                      headers |-> req.headers, body |-> req.body]>>
        /\ pages' = <<a>>
        /\ UNCHANGED <<req, close_client, error_text, warned>>
        /\ IF a.kind = "exc" THEN
                /\ walk_raise("ConnectionError")
                /\ UNCHANGED <<dfs, curr_url, initial_response>>
           ELSE IF first_page_rejected(a) THEN
                /\ walk_raise(IF error_body(a).raised THEN "JSONDecodeError"
                              ELSE "Exception")
                /\ UNCHANGED <<dfs, curr_url, initial_response>>
           ELSE IF get_resp_data(a).raised \/ next_req_url(a).raised THEN
                /\ walk_raise("JSONDecodeError")
                /\ initial_response' = 1
                /\ UNCHANGED <<dfs, curr_url>>
           ELSE
                /\ initial_response' = 1
                /\ dfs' = get_resp_data(a).rows
                /\ curr_url' = next_req_url(a).url
                /\ IF url_truthy(next_req_url(a).url)
                   THEN /\ wpc' = "loop"
                        /\ UNCHANGED <<walk_out, client_open>>
                   ELSE walk_return(get_resp_data(a).rows, 1)
    /\ UNCHANGED <<query_vars, api_vars, parse_vars, module_vars>>

\* the except clause of the loop, lines 595-599: it reads error_text
page_failed(text) ==
    IF text = Unbound THEN
        /\ walk_raise("UnboundLocalError")
        /\ UNCHANGED <<dfs, curr_url, warned>>
    ELSE
        /\ warned' = Append(warned, text)
        /\ curr_url' = NoUrl
        /\ UNCHANGED dfs
        /\ walk_return(dfs, initial_response)

\* pd.concat([dfs, df1], ignore_index=True)
concat(a, b) == a \o b

\* variant of page_request that sends no body
page_request_without_body(url) ==
    [method |-> req.method, url |-> url, headers |-> req.headers, body |-> "<no body>"]

\* lines 583-588: client.request(method, curr_url, headers=headers, data=...)
page_request(url) ==
    [method |-> req.method, url |-> url, headers |-> req.headers,
     body |-> IF req.method = "POST" THEN req.body ELSE "<no body>"]

\* one iteration of the while loop, lines 581-599 (and 600-603 when it ends)
WalkNextPage ==
    /\ wpc = "loop"
    /\ Len(sent) < MaxPages
    /\ \E a \in Answers :
        /\ sent' = Append(sent, page_request(curr_url))
        /\ pages' = Append(pages, a)
        /\ UNCHANGED <<req, close_client, initial_response>>
        /\ IF a.kind = "exc" THEN
                /\ page_failed(error_text)
                /\ UNCHANGED error_text
           ELSE IF a.status # 200 THEN
                /\ error_text' = error_body(a).text
                /\ page_failed(error_body(a).text)
           ELSE IF get_resp_data(a).raised \/ next_req_url(a).raised THEN
                /\ page_failed(error_text)
                /\ UNCHANGED error_text
           ELSE
                /\ dfs' = concat(dfs, get_resp_data(a).rows)
                /\ curr_url' = next_req_url(a).url
                /\ UNCHANGED <<error_text, warned>>
                /\ IF url_truthy(next_req_url(a).url)
                   THEN UNCHANGED <<wpc, walk_out, client_open>>
                   ELSE walk_return(concat(dfs, get_resp_data(a).rows), initial_response)
    /\ UNCHANGED <<query_vars, api_vars, parse_vars, module_vars>>

(***************************************************************************)
(* utils.py: parameter values, to_str and query.                           *)
(* A Python value is a record tagged with its type.                        *)
(***************************************************************************)
Str(x) == [t |-> "str", s |-> x]
IntV(n) == [t |-> "int", n |-> n]
BoolV(b) == [t |-> "bool", b |-> b]
NoneV == [t |-> "none"]
ListV(xs) == [t |-> "list", xs |-> xs]
SeriesV(xs) == [t |-> "series", xs |-> xs]
IndexV(xs) == [t |-> "index", xs |-> xs]
RaisedV(exc) == [t |-> "raise", exc |-> exc]

\* str(x) of a scalar
py_str(x) ==
    IF x.t = "str" THEN x.s
    ELSE IF x.t = "int" THEN ToString(x.n)
    ELSE IF x.t = "bool" THEN (IF x.b THEN "True" ELSE "False")
    ELSE "None"

\* delimiter.join(parts)
RECURSIVE join(_, _)
join(parts, delimiter) ==
    IF Len(parts) = 0 THEN ""
    ELSE IF Len(parts) = 1 THEN parts[1]
    ELSE parts[1] \o delimiter \o join(Tail(parts), delimiter)

\* to_str: a list joins str(x) of its elements; a Series or Index joins its
\* elements as they are (str.join raises TypeError on a non-string); a string
\* is returned; any other value falls off the end and gives None.
to_str(listlike, delimiter) ==
    IF listlike.t = "list" THEN
        Str(join([i \in 1..Len(listlike.xs) |-> py_str(listlike.xs[i])], delimiter))
    ELSE IF listlike.t \in {"series", "index"} THEN
        IF \A i \in 1..Len(listlike.xs) : listlike.xs[i].t = "str"
        THEN Str(join([i \in 1..Len(listlike.xs) |-> listlike.xs[i].s], delimiter))
        ELSE RaisedV("TypeError")
    ELSE IF listlike.t = "str" THEN listlike
    ELSE NoneV

\* lines 180-181: every value of the payload is replaced by to_str of it
formatted_payload(payload, delimiter) ==
    [k \in DOMAIN payload |-> to_str(payload[k], delimiter)]

\* requests.get(url, params=payload): requests leaves out a key whose value is None
request_params(payload) ==
    [k \in {x \in DOMAIN payload : payload[x].t = "str"} |-> payload[k].s]

HttpGet(url, params) == [url |-> url, params |-> params]

NoSitesSentinel == "No sites/data"

\* response.text.startswith('No sites/data'); a body is a sequence of tokens
starts_with_sentinel(body) == Len(body) >= 1 /\ body[1] = NoSitesSentinel

Message(text, urls) == [text |-> text, urls |-> urls]
NoQOut == [kind |-> "none", exc |-> "<none>", msg |-> Message("", {})]
QReturned == [kind |-> "returned", exc |-> "<none>", msg |-> Message("", {})]
QRaised(exc, msg) == [kind |-> "raised", exc |-> exc, msg |-> msg]

query_outcome_body_first(response) ==
    IF starts_with_sentinel(response.body) THEN
        QRaised("NoSitesError",
                Message("No sites/data found using the selection criteria specified in url: ",
                        {response.url}))
    ELSE IF response.status = 400 THEN
        QRaised("ValueError",
                Message("Bad Request, check that your parameters are correct. URL: ",
                        {response.url}))
    ELSE QReturned

\* lines 191-220: what query does with the response it received
query_outcome(response) ==
    IF response.status = 400 THEN
        QRaised("ValueError",
                Message("Bad Request, check that your parameters are correct. URL: ",
                        {response.url}))
    ELSE IF response.status = 404 THEN
        QRaised("ValueError",
                Message("Page Not Found Error. May be the result of an empty query. URL: ",
                        {response.url}))
    ELSE IF response.status = 414 THEN
        QRaised("ValueError",
                Message("Request URL too long. Modify your query to use fewer sites.", {}))
    ELSE IF starts_with_sentinel(response.body) THEN
        QRaised("NoSitesError",
                Message("No sites/data found using the selection criteria specified in url: ",
                        {response.url}))
    ELSE QReturned

\* lines 180-189 of query: format the payload, then issue the GET
query_send(url, payload, delimiter) ==
    LET fp == formatted_payload(payload, delimiter) IN
    IF \E k \in DOMAIN fp : fp[k].t = "raise" THEN
        /\ qpc' = "done"
        /\ q_out' = QRaised("TypeError", Message("sequence item: expected str instance", {}))
        /\ UNCHANGED <<http_log, q_resp>>
    ELSE
        /\ qpc' = "sent"
        /\ http_log' = Append(http_log, HttpGet(url, request_params(fp)))
        /\ UNCHANGED <<q_out, q_resp>>

(***************************************************************************)
(* The calls of query a caller can make, and the answers of the service.   *)
(***************************************************************************)
QueryUrls == {"https://waterservices.usgs.gov/nwis/stat"}
QueryKeys == {"sites", "siteStatus"}
Delimiters == {",", ";"}
QueryValues ==
    {NoneV, Str("01491000"), IntV(5), BoolV(TRUE),
     ListV(<<>>), ListV(<<Str("a"), Str("b")>>), ListV(<<Str("a"), IntV(7)>>),
     SeriesV(<<Str("a"), Str("b")>>), SeriesV(<<IntV(7)>>), IndexV(<<Str("a")>>)}
QueryPayloads == UNION {[ks -> QueryValues] : ks \in SUBSET QueryKeys}

QueryStatuses == {200, 400, 403, 404, 414, 429, 500, 503}
QueryBodies ==
    {<<>>,
     <<NoSitesSentinel, " found using the selection criteria specified">>,
     <<"# comment", "site_no">>,
     <<"Error: ", NoSitesSentinel>>}

NoResponse == [kind |-> "none", status |-> 0, body |-> <<>>, url |-> HttpGet("", <<>>)]
QResponse(status, body, url) ==
    [kind |-> "resp", status |-> status, body |-> body, url |-> url]

\* a caller invokes query(url, payload, delimiter)
QueryCall ==
    /\ qpc = "idle"
    /\ \E url \in QueryUrls, payload \in QueryPayloads, delimiter \in Delimiters :
        /\ q_in' = [url |-> url, payload |-> payload, delimiter |-> delimiter]
        /\ query_send(url, payload, delimiter)
    /\ UNCHANGED <<walk_vars, api_vars, parse_vars, module_vars>>

\* requests.get raises instead of answering (no route, timeout, TLS failure)
QueryTransportError ==
    /\ qpc = "sent"
    /\ qpc' = "done"
    /\ q_out' = QRaised("ConnectionError", Message("connection failed", {}))
    /\ UNCHANGED <<q_in, http_log, q_resp>>
    /\ UNCHANGED <<walk_vars, api_vars, parse_vars, module_vars>>

\* the service answers the GET and query finishes, lines 189-220
QueryAnswer ==
    /\ qpc = "sent"
    /\ \E status \in QueryStatuses, body \in QueryBodies :
        LET response == QResponse(status, body, http_log[Len(http_log)]) IN
        /\ q_resp' = response
        /\ q_out' = query_outcome(response)
        /\ qpc' = "done"
    /\ UNCHANGED <<q_in, http_log>>
    /\ UNCHANGED <<walk_vars, api_vars, parse_vars, module_vars>>

InitQueryIdle ==
    /\ qpc = "idle"
    /\ q_in = [url |-> "", payload |-> <<>>, delimiter |-> ","]
    /\ http_log = <<>>
    /\ q_resp = NoResponse
    /\ q_out = NoQOut

InitWalkIdle ==
    /\ wpc = "idle"
    /\ req = [method |-> "GET", url |-> FirstUrl, headers |-> Headers, body |-> "<no body>"]
    /\ close_client = TRUE
    /\ client_open = TRUE
    /\ sent = <<>>
    /\ pages = <<>>
    /\ dfs = <<>>
    /\ curr_url = NoUrl
    /\ error_text = Unbound
    /\ initial_response = 0
    /\ warned = <<>>
    /\ walk_out = NoOutcome

(***************************************************************************)
(* nwis.py: keyword dictionaries, the validation in front of query, the    *)
(* public getters and the metadata they return.                            *)
(***************************************************************************)
Has(d, k) == k \in DOMAIN d
Put(d, k, v) == [x \in (DOMAIN d) \cup {k} |-> IF x = k THEN v ELSE d[x]]
Del(d, k) == [x \in (DOMAIN d) \ {k} |-> d[x]]
Get(d, k, default) == IF Has(d, k) THEN d[k] ELSE default
Update(d, e) == [x \in (DOMAIN d) \cup (DOMAIN e) |-> IF x \in DOMAIN e THEN e[x] ELSE d[x]]
EmptyDict == [x \in {} |-> NoneV]

WATERDATA_BASE_URL == "https://nwis.waterdata.usgs.gov/"
WATERDATA_URL == WATERDATA_BASE_URL \o "nwis/"
WATERSERVICE_URL == "https://waterservices.usgs.gov/nwis/"
PARAMCODES_URL == "https://help.waterdata.usgs.gov/code/parameter_cd_nm_query?"
ALLPARAMCODES_URL == "https://help.waterdata.usgs.gov/code/parameter_cd_query?"
SAMPLES_URL == "https://api.waterdata.usgs.gov/samples-data"
WATERSERVICES_SERVICES == {"dv", "iv", "site", "stat", "gwlevels"}
WATERDATA_SERVICES == {"qwdata", "measurements", "peaks", "pmcodes", "water_use", "ratings"}

\* what a function does before the network is involved: it raises, or it hands
\* url and payload to utils.query ("query") or to requests.get ("get")
PlanRaise(exc, text) ==
    [kind |-> "raise", exc |-> exc, text |-> text, url |-> "", payload |-> EmptyDict]
PlanQuery(url, payload) ==
    [kind |-> "query", exc |-> "<none>", text |-> "", url |-> url, payload |-> payload]
PlanGet(url, payload) ==
    [kind |-> "get", exc |-> "<none>", text |-> "", url |-> url, payload |-> payload]
PlanNone ==
    [kind |-> "none", exc |-> "<none>", text |-> "", url |-> "", payload |-> EmptyDict]

\* a plan together with the arguments the function gives to its metadata object
Work(plan, cls, parameters) == [plan |-> plan, cls |-> cls, parameters |-> parameters]

waterdata_major_params == {"site_no", "state_cd"}
waterdata_bbox_params ==
    {"nw_longitude_va", "nw_latitude_va", "se_longitude_va", "se_latitude_va"}

query_waterdata(service, kwargs) ==
    IF ~\E key \in waterdata_major_params \cup waterdata_bbox_params : Has(kwargs, key)
    THEN PlanRaise("TypeError", "Query must specify a major filter: site_no, stateCd, bBox")
    ELSE IF /\ \E key \in waterdata_bbox_params : Has(kwargs, key)
            /\ ~\A key \in waterdata_bbox_params : Has(kwargs, key)
    THEN PlanRaise("TypeError", "One or more lat/long coordinates missing or invalid.")
    ELSE IF service \notin WATERDATA_SERVICES
    THEN PlanRaise("TypeError", "Service not recognized")
    ELSE PlanQuery(WATERDATA_URL \o service, kwargs)

waterservices_major_params == {"sites", "stateCd", "bBox", "huc", "countyCd"}

query_waterservices(service, kwargs) ==
    IF ~\E key \in waterservices_major_params : Has(kwargs, key)
    THEN PlanRaise("TypeError",
                   "Query must specify a major filter: sites, stateCd, bBox, huc, or countyCd")
    ELSE IF service \notin WATERSERVICES_SERVICES
    THEN PlanRaise("TypeError", "Service not recognized")
    ELSE PlanQuery(WATERSERVICE_URL \o service,
                   IF Has(kwargs, "format") THEN kwargs ELSE Put(kwargs, "format", Str("rdb")))

\* if sites: (None, "" and [] are falsy)
py_truthy(v) ==
    /\ v.t # "none"
    /\ v.t = "str" => v.s # ""
    /\ v.t = "list" => v.xs # <<>>
    /\ v.t = "int" => v.n # 0
    /\ v.t = "bool" => v.b

check_sites_value_types(sites) ==
    IF py_truthy(sites) /\ sites.t # "list" /\ sites.t # "str"
    THEN PlanRaise("TypeError", "sites must be a string or a list of strings")
    ELSE PlanNone

\* kwargs[key] = kwargs.pop(key, default)
SetDefault(kwargs, key, default) == Put(kwargs, key, Get(kwargs, key, default))

\* the first plan unless it lets the call go on
Then(check, rest) == IF check.kind = "raise" THEN Work(check, "<none>", EmptyDict) ELSE rest

\* get_dv and get_iv: lines 662-672 and 841-853
get_values(service, sites, start, end, kw) ==
    LET kwargs == Put(SetDefault(SetDefault(SetDefault(kw, "startDT", start),
                                          "endDT", end), "sites", sites),
                      "multi_index", BoolV(TRUE))
    IN Then(check_sites_value_types(sites),
            Work(query_waterservices(service, Put(kwargs, "format", Str("json"))),
                 "NWIS_Metadata", kwargs))

get_dv(sites, kw) == get_values("dv", sites, NoneV, NoneV, kw)
get_iv(sites, kw) == get_values("iv", sites, NoneV, NoneV, kw)

get_gwlevels(sites, kw) ==
    LET kwargs == Put(SetDefault(SetDefault(SetDefault(kw, "startDT", Str("1851-01-01")),
                                          "endDT", NoneV), "sites", sites),
                      "multi_index", BoolV(TRUE))
    IN Then(check_sites_value_types(sites),
            Work(query_waterservices("gwlevels", kwargs), "NWIS_Metadata", kwargs))

get_stats(sites, kw) ==
    Then(check_sites_value_types(sites),
         Work(query_waterservices("stat", Put(kw, "sites", sites)), "NWIS_Metadata", kw))

get_discharge_measurements(sites, kw) ==
    LET kwargs == SetDefault(SetDefault(SetDefault(kw, "site_no", sites),
                                        "begin_date", NoneV), "end_date", NoneV)
    IN Then(check_sites_value_types(sites),
            Work(query_waterdata("measurements", Put(kwargs, "format", Str("rdb"))),
                 "NWIS_Metadata", kwargs))

get_discharge_peaks(sites, kw) ==
    LET kwargs == Put(SetDefault(SetDefault(SetDefault(kw, "site_no", sites),
                                            "begin_date", NoneV), "end_date", NoneV),
                      "multi_index", BoolV(TRUE))
    IN Then(check_sites_value_types(sites),
            Work(query_waterdata("peaks", Put(kwargs, "format", Str("rdb"))),
                 "NWIS_Metadata", kwargs))

qwdata_payload ==
    [x \in {"agency_cd", "format", "pm_cd_compare", "inventory_output",
            "rdb_inventory_output", "TZoutput", "rdb_qw_attributes", "date_format",
            "rdb_compression", "submitted_form"} |->
        CASE x = "agency_cd" -> Str("USGS")
          [] x = "format" -> Str("rdb")
          [] x = "pm_cd_compare" -> Str("Greater than")
          [] x = "inventory_output" -> Str("0")
          [] x = "rdb_inventory_output" -> Str("file")
          [] x = "TZoutput" -> Str("0")
          [] x = "rdb_qw_attributes" -> Str("expanded")
          [] x = "date_format" -> Str("YYYY-MM-DD")
          [] x = "rdb_compression" -> Str("value")
          [] OTHER -> Str("brief_list")]

\* get_qwdata, lines 186-239, with wide_format at its default
get_qwdata(sites, kw) ==
    LET k1 == Put(Put(SetDefault(SetDefault(SetDefault(kw, "site_no", sites),
                                            "begin_date", NoneV), "end_date", NoneV),
                      "multi_index", BoolV(TRUE)),
                  "qw_sample_wide", Str("qw_sample_wide"))
        k2 == IF Has(k1, "parameterCd") /\ py_truthy(k1["parameterCd"])
              THEN Put(Put(Put(Del(k1, "parameterCd"),
                               "multiple_parameter_cds", to_str(k1["parameterCd"], ",")),
                           "param_cd_operator", Str("OR")),
                       "list_of_search_criteria", Str("multiple_parameter_cds"))
              ELSE k1
        kwargs == Update(k2, qwdata_payload)
    IN Then(check_sites_value_types(sites),
            Work(query_waterdata("qwdata", kwargs), "NWIS_Metadata", kwargs))

\* get_info, lines 771-783, with seriesCatalogOutput not given
get_info(kw) ==
    LET kwargs == Put(kw, "siteOutput", Str("Expanded"))
    IN Work(query_waterservices("site", kwargs), "NWIS_Metadata", kwargs)

what_sites(kw) == Work(query_waterservices("site", kw), "NWIS_Metadata", kw)

\* Python rejects a call that gives one keyword twice
DuplicateKeyword(key) ==
    Work(PlanRaise("TypeError", "got multiple values for keyword argument " \o key),
         "<none>", EmptyDict)

\* get_record, lines 1213-1302, for the services whose getters are modelled
get_record(sites, service, kw) ==
    Then(check_sites_value_types(sites),
         IF service \notin WATERSERVICES_SERVICES \cup WATERDATA_SERVICES
         THEN Work(PlanRaise("TypeError", "Unrecognized service: " \o service),
                   "<none>", EmptyDict)
         ELSE IF service \in {"qwdata", "measurements", "peaks"} /\ Has(kw, "site_no")
         THEN DuplicateKeyword("site_no")
         ELSE CASE service = "iv" -> get_iv(sites, kw)
                [] service = "dv" -> get_dv(sites, kw)
                [] service = "qwdata" -> get_qwdata(NoneV, Put(kw, "site_no", sites))
                [] service = "site" -> get_info(Put(kw, "sites", sites))
                [] service = "measurements" ->
                       get_discharge_measurements(NoneV, Put(kw, "site_no", sites))
                [] service = "peaks" -> get_discharge_peaks(NoneV, Put(kw, "site_no", sites))
                [] service = "gwlevels" -> get_gwlevels(sites, kw)
                [] service = "stat" -> get_stats(sites, kw)
                [] OTHER -> Work(PlanRaise("TypeError", service \o " service not yet implemented"),
                                 "<none>", EmptyDict))

(***************************************************************************)
(* waterdata/types.py and waterdata/utils.py: services and profiles of the *)
(* samples service; waterdata/api.py: get_samples.                         *)
(***************************************************************************)
SERVICES == {"activities", "locations", "organizations", "projects", "results"}

PROFILE_LOOKUP ==
    [x \in SERVICES |->
        CASE x = "activities" -> {"sampact", "actmetric", "actgroup", "count"}
          [] x = "locations" -> {"site", "count"}
          [] x = "organizations" -> {"organization", "count"}
          [] x = "projects" -> {"project", "projectmonitoringlocationweight"}
          [] OTHER -> {"fullphyschem", "basicphyschem", "fullbio", "basicbio", "narrow",
                       "resultdetectionquantitationlimit", "labsampleprep", "count"}]

check_profiles_service_only(service, profile) ==
    IF service \notin SERVICES
    THEN PlanRaise("ValueError", "Invalid service: " \o service)
    ELSE PlanNone

\* _check_profiles
check_profiles(service, profile) ==
    IF service \notin SERVICES
    THEN PlanRaise("ValueError", "Invalid service: " \o service)
    ELSE IF profile \notin PROFILE_LOOKUP[service]
    THEN PlanRaise("ValueError", "Invalid profile: " \o profile \o " for service " \o service)
    ELSE PlanNone

\* get_samples, lines 1714-1735: the filters given are sent with the mime type
get_samples(service, profile, kw) ==
    Then(check_profiles(service, profile),
         Work(PlanGet(SAMPLES_URL \o "/" \o service \o "/" \o profile,
                      Put(kw, "mimeType", Str("text/csv"))),
              "BaseMetadata", EmptyDict))

(***************************************************************************)
(* Metadata objects: utils.BaseMetadata and nwis.NWIS_Metadata.            *)
(***************************************************************************)
NoMetadata == [cls |-> "<none>", url |-> HttpGet("", <<>>), parameters |-> EmptyDict]

\* variants of site_info: lowest-precedence key first; and raising where the
\* subclass has no key to look up
site_info_reversed(m) ==
    IF m.cls = "BaseMetadata" THEN
        Work(PlanRaise("NotImplementedError",
                       "site_info must be implemented by utils.BaseMetadata children"),
             "<none>", EmptyDict)
    ELSE IF Has(m.parameters, "bBox") THEN
        what_sites(Put(EmptyDict, "bBox", m.parameters["bBox"]))
    ELSE IF Has(m.parameters, "countyCd") THEN
        what_sites(Put(EmptyDict, "countyCd", m.parameters["countyCd"]))
    ELSE IF Has(m.parameters, "huc") THEN
        what_sites(Put(EmptyDict, "huc", m.parameters["huc"]))
    ELSE IF Has(m.parameters, "stateCd") THEN
        what_sites(Put(EmptyDict, "stateCd", m.parameters["stateCd"]))
    ELSE IF Has(m.parameters, "sites") THEN
        what_sites(Put(EmptyDict, "sites", m.parameters["sites"]))
    ELSE IF Has(m.parameters, "site_no") THEN
        what_sites(Put(EmptyDict, "sites", m.parameters["site_no"]))
    ELSE Work(PlanNone, "<none>", EmptyDict)

site_info_raising(m) ==
    IF m.cls = "BaseMetadata" THEN
        Work(PlanRaise("NotImplementedError",
                       "site_info must be implemented by utils.BaseMetadata children"),
             "<none>", EmptyDict)
    ELSE IF Has(m.parameters, "site_no") THEN
        what_sites(Put(EmptyDict, "sites", m.parameters["site_no"]))
    ELSE IF Has(m.parameters, "sites") THEN
        what_sites(Put(EmptyDict, "sites", m.parameters["sites"]))
    ELSE IF Has(m.parameters, "stateCd") THEN
        what_sites(Put(EmptyDict, "stateCd", m.parameters["stateCd"]))
    ELSE IF Has(m.parameters, "huc") THEN
        what_sites(Put(EmptyDict, "huc", m.parameters["huc"]))
    ELSE IF Has(m.parameters, "countyCd") THEN
        what_sites(Put(EmptyDict, "countyCd", m.parameters["countyCd"]))
    ELSE IF Has(m.parameters, "bBox") THEN
        what_sites(Put(EmptyDict, "bBox", m.parameters["bBox"]))
    ELSE Work(PlanRaise("NotImplementedError", "not implemented for this query"),
              "<none>", EmptyDict)

\* lookup of the site table for the parameters kept by the metadata object
site_info(m) ==
    IF m.cls = "BaseMetadata" THEN
        Work(PlanRaise("NotImplementedError",
                       "site_info must be implemented by utils.BaseMetadata children"),
             "<none>", EmptyDict)
    ELSE IF Has(m.parameters, "site_no") THEN
        what_sites(Put(EmptyDict, "sites", m.parameters["site_no"]))
    ELSE IF Has(m.parameters, "sites") THEN
        what_sites(Put(EmptyDict, "sites", m.parameters["sites"]))
    ELSE IF Has(m.parameters, "stateCd") THEN
        what_sites(Put(EmptyDict, "stateCd", m.parameters["stateCd"]))
    ELSE IF Has(m.parameters, "huc") THEN
        what_sites(Put(EmptyDict, "huc", m.parameters["huc"]))
    ELSE IF Has(m.parameters, "countyCd") THEN
        what_sites(Put(EmptyDict, "countyCd", m.parameters["countyCd"]))
    ELSE IF Has(m.parameters, "bBox") THEN
        what_sites(Put(EmptyDict, "bBox", m.parameters["bBox"]))
    ELSE Work(PlanNone, "<none>", EmptyDict)

\* get_pmcodes(parameterCd=code) for one code, partial matching at its default
get_pmcodes(parameterCd) ==
    IF parameterCd.t = "str" THEN
        Work(PlanQuery(PARAMCODES_URL,
                       Put(Put(EmptyDict, "fmt", Str("rdb")),
                           "parm_nm_cd", Str("%" \o parameterCd.s \o "%"))),
             "NWIS_Metadata", EmptyDict)
    ELSE Work(PlanRaise("TypeError",
                        "Parameter information (code or name) must be type string or list"),
              "<none>", EmptyDict)

variable_info(m) ==
    IF m.cls = "BaseMetadata" THEN
        Work(PlanRaise("NotImplementedError",
                       "variable_info must be implemented by utils.BaseMetadata children"),
             "<none>", EmptyDict)
    ELSE IF Has(m.parameters, "parameterCd") THEN get_pmcodes(m.parameters["parameterCd"])
    ELSE Work(PlanNone, "<none>", EmptyDict)

\* the requests a lookup issues: none when it raises first or is unavailable
lookup_requests(work) ==
    IF work.plan.kind # "query" THEN <<>>
    ELSE LET fp == formatted_payload(work.plan.payload, ",") IN
         IF \E k \in DOMAIN fp : fp[k].t = "raise" THEN <<>>
         ELSE <<HttpGet(work.plan.url, request_params(fp))>>

metadata_init_eager(cls, response, parameters) ==
    [md |-> [cls |-> cls, url |-> response.url, parameters |-> parameters],
     requests |-> lookup_requests(site_info([cls |-> cls, url |-> response.url,
                                             parameters |-> parameters]))]

\* BaseMetadata.__init__ and NWIS_Metadata.__init__: the object built, and the
\* requests issued while building it
metadata_init(cls, response, parameters) ==
    [md |-> [cls |-> cls, url |-> response.url, parameters |-> parameters],
     requests |-> <<>>]

(***************************************************************************)
(* The top-level calls a caller can make.                                  *)
(***************************************************************************)
KwValue(k) ==
    CASE k \in {"site_no", "sites"} -> Str("01491000")
      [] k \in {"stateCd", "state_cd"} -> Str("OH")
      [] k = "huc" -> Str("02070010")
      [] k = "countyCd" -> Str("51059")
      [] k = "bBox" -> Str("-92.8,44.2,-88.9,46.0")
      [] k = "parameterCd" -> Str("00060")
      [] k = "format" -> Str("rdb")
      [] k = "usgsPCode" -> Str("00400")
      [] OTHER -> Str("-92.8")

DictOf(keys) == [k \in keys |-> KwValue(k)]

SitesArgs == {NoneV, Str("01491000"), IntV(1491000)}
WsKw == {DictOf(ks) : ks \in SUBSET {"site_no", "stateCd", "huc", "countyCd", "bBox",
                                     "parameterCd"}}
WsDirectKw == {DictOf(ks) : ks \in SUBSET {"sites", "stateCd", "huc", "countyCd", "bBox",
                                           "format"}}
WdKw == {DictOf(ks \cup bb) :
            ks \in SUBSET {"site_no", "state_cd", "stateCd", "parameterCd"},
            bb \in {{}, {"nw_longitude_va"}, waterdata_bbox_params}}
RecordKw == {DictOf(ks) : ks \in SUBSET {"site_no", "stateCd", "parameterCd"}}
SitesKw == {DictOf(ks) : ks \in SUBSET {"sites", "stateCd", "parameterCd"}}
SamplesKw == {DictOf(ks) : ks \in SUBSET {"usgsPCode"}}

WsGetters == {"get_dv", "get_iv", "get_gwlevels", "get_stats"}
WdGetters == {"get_discharge_measurements", "get_discharge_peaks", "get_qwdata"}

Call(fn, sites, service, profile, kw) ==
    [fn |-> fn, sites |-> sites, service |-> service, profile |-> profile, kw |-> kw]
NoCall == Call("<none>", NoneV, "", "", EmptyDict)

Calls ==
    {Call(f, s, "", "", kw) : f \in WsGetters, s \in SitesArgs, kw \in WsKw}
    \cup {Call(f, s, "", "", kw) : f \in WdGetters, s \in SitesArgs, kw \in WdKw}
    \cup {Call("query_waterservices", NoneV, sv, "", kw) :
            sv \in {"dv", "site", "peaks", "None"}, kw \in WsDirectKw}
    \cup {Call("query_waterdata", NoneV, sv, "", kw) :
            sv \in {"peaks", "qwdata", "dv", "None"}, kw \in WdKw}
    \cup {Call("get_record", s, sv, "", kw) :
            s \in SitesArgs,
            sv \in {"iv", "dv", "stat", "gwlevels", "site", "qwdata", "measurements",
                    "peaks", "not_a_service"},
            kw \in RecordKw}
    \cup {Call("get_samples", NoneV, sv, pf, kw) :
            sv \in {"results", "locations", "bogus"},
            pf \in {"fullphyschem", "site", "count", "bogus"},
            kw \in SamplesKw}
    \cup {Call(f, NoneV, "", "", kw) : f \in {"what_sites", "get_info"}, kw \in SitesKw}

\* what the called function does up to its HTTP request
top_level(c) ==
    CASE c.fn = "get_dv" -> get_dv(c.sites, c.kw)
      [] c.fn = "get_iv" -> get_iv(c.sites, c.kw)
      [] c.fn = "get_gwlevels" -> get_gwlevels(c.sites, c.kw)
      [] c.fn = "get_stats" -> get_stats(c.sites, c.kw)
      [] c.fn = "get_discharge_measurements" -> get_discharge_measurements(c.sites, c.kw)
      [] c.fn = "get_discharge_peaks" -> get_discharge_peaks(c.sites, c.kw)
      [] c.fn = "get_qwdata" -> get_qwdata(c.sites, c.kw)
      [] c.fn = "query_waterservices" ->
             Work(query_waterservices(c.service, c.kw), "<none>", EmptyDict)
      [] c.fn = "query_waterdata" ->
             Work(query_waterdata(c.service, c.kw), "<none>", EmptyDict)
      [] c.fn = "get_record" -> get_record(c.sites, c.service, c.kw)
      [] c.fn = "get_samples" -> get_samples(c.service, c.profile, c.kw)
      [] c.fn = "what_sites" -> what_sites(c.kw)
      [] OTHER -> get_info(c.kw)

ApiStatuses == {200, 400, 404, 500}
ApiBodies == {<<"# comment", "site_no">>,
              <<NoSitesSentinel, " found using the selection criteria specified">>}

NoAccess == <<>>
Access(prop, result, exc) == [prop |-> prop, result |-> result, exc |-> exc]

InitApiIdle ==
    /\ apc = "idle"
    /\ call = NoCall
    /\ api_out = NoQOut
    /\ md = NoMetadata
    /\ accesses = NoAccess
    /\ lookups = <<>>

\* the caller makes a top-level call; it runs up to its HTTP request
ApiCall ==
    /\ apc = "idle"
    /\ \E c \in Calls :
        LET w == top_level(c)
            fp == formatted_payload(w.plan.payload, ",")
        IN
        /\ call' = c
        /\ IF w.plan.kind = "raise" THEN
                /\ apc' = "raised"
                /\ api_out' = QRaised(w.plan.exc, Message(w.plan.text, {}))
                /\ UNCHANGED query_vars
           ELSE IF w.plan.kind = "query" THEN
                /\ q_in' = [url |-> w.plan.url, payload |-> w.plan.payload,
                            delimiter |-> ","]
                /\ query_send(w.plan.url, w.plan.payload, ",")
                /\ IF \E k \in DOMAIN fp : fp[k].t = "raise"
                   THEN /\ apc' = "raised"
                        /\ api_out' = QRaised("TypeError",
                                          Message("sequence item: expected str instance", {}))
                   ELSE /\ apc' = "waiting"
                        /\ UNCHANGED api_out
           ELSE
                /\ http_log' = Append(http_log,
                                      HttpGet(w.plan.url, request_params(w.plan.payload)))
                /\ qpc' = "sent"
                /\ apc' = "waiting"
                /\ UNCHANGED <<q_in, q_resp, q_out, api_out>>
    /\ UNCHANGED <<md, accesses, lookups>>
    /\ UNCHANGED <<walk_vars, parse_vars, module_vars>>

\* response.raise_for_status()
raise_for_status(response) ==
    IF response.status >= 400 /\ response.status < 600
    THEN QRaised("HTTPError", Message("Client or Server Error for url: ", {response.url}))
    ELSE QReturned

\* the service answers; the called function checks the answer, parses it and
\* builds the metadata object.  parse_ok: the parser accepts the body.
ApiAnswer ==
    /\ apc = "waiting"
    /\ \E status \in ApiStatuses, body \in ApiBodies, parse_ok \in BOOLEAN :
        LET response == QResponse(status, body, http_log[Len(http_log)])
            w == top_level(call)
            checked == IF w.plan.kind = "query" THEN query_outcome(response)
                       ELSE raise_for_status(response)
            built == metadata_init(w.cls, response, w.parameters)
        IN
        /\ q_resp' = response
        /\ q_out' = IF w.plan.kind = "query" THEN checked ELSE q_out
        /\ qpc' = "done"
        /\ IF checked.kind = "raised" THEN
                /\ apc' = "raised"
                /\ api_out' = checked
                /\ UNCHANGED <<md, lookups, http_log>>
           ELSE IF w.cls = "<none>" THEN
                \* query_waterservices / query_waterdata return the response
                /\ apc' = "returned"
                /\ UNCHANGED <<api_out, md, lookups, http_log>>
           ELSE IF ~parse_ok THEN
                /\ apc' = "raised"
                /\ api_out' = QRaised("ParserError", Message("cannot parse the body", {}))
                /\ UNCHANGED <<md, lookups, http_log>>
           ELSE
                /\ apc' = "returned"
                /\ md' = built.md
                /\ lookups' = lookups \o built.requests
                /\ http_log' = http_log \o built.requests
                /\ UNCHANGED api_out
    /\ UNCHANGED <<q_in, call, accesses>>
    /\ UNCHANGED <<walk_vars, parse_vars, module_vars>>

\* the outcome of one lookup whose request the service answers with status
lookup_result(prop, work, status) ==
    IF work.plan.kind = "raise" THEN Access(prop, "raised", work.plan.exc)
    ELSE IF work.plan.kind = "none" THEN Access(prop, "none", "<none>")
    ELSE IF lookup_requests(work) = <<>> THEN Access(prop, "raised", "TypeError")
    ELSE LET o == query_outcome(QResponse(status, <<"# comment", "site_no">>,
                                          lookup_requests(work)[1]))
         IN IF o.kind = "raised" THEN Access(prop, "raised", o.exc)
            ELSE Access(prop, "returned", "<none>")

\* variant of AccessProperty that keeps the result of the first access
AccessProperty_memoized(prop, work) ==
    /\ apc = "returned"
    /\ md.cls # "<none>"
    /\ Len(accesses) < MaxAccess
    /\ \E status \in {200, 400} :
        LET fresh == IF \E i \in 1..Len(accesses) : accesses[i].prop = prop
                     THEN <<>> ELSE lookup_requests(work)
        IN
        /\ accesses' = Append(accesses, lookup_result(prop, work, status))
        /\ lookups' = lookups \o fresh
        /\ http_log' = http_log \o fresh
    /\ UNCHANGED <<apc, call, api_out, md, qpc, q_in, q_resp, q_out>>
    /\ UNCHANGED <<walk_vars, parse_vars, module_vars>>

\* the caller reads a lazy property of the metadata object it was given
AccessProperty(prop, work) ==
    /\ apc = "returned"
    /\ md.cls # "<none>"
    /\ Len(accesses) < MaxAccess
    /\ \E status \in {200, 400} :
        /\ accesses' = Append(accesses, lookup_result(prop, work, status))
        /\ lookups' = lookups \o lookup_requests(work)
        /\ http_log' = http_log \o lookup_requests(work)
    /\ UNCHANGED <<apc, call, api_out, md, qpc, q_in, q_resp, q_out>>
    /\ UNCHANGED <<walk_vars, parse_vars, module_vars>>

AccessSiteInfo == AccessProperty("site_info", site_info(md))
AccessVariableInfo == AccessProperty("variable_info", variable_info(md))

(***************************************************************************)
(* Tables (pandas.DataFrame) as the parsers and formatters of nwis.py see  *)
(* them: the data columns in order, the rows in order, and the columns     *)
(* that make up the index (none: the default RangeIndex).  A cell is a     *)
(* Str, an IntV or NoneV (NaN / NaT).                                      *)
(***************************************************************************)
Table(cols, rows, index) == [cols |-> cols, rows |-> rows, index |-> index]
EmptyTable(cols) == Table(cols, <<>>, <<>>)

Range2(f) == {f[x] : x \in DOMAIN f}
Range(seq) == {seq[i] : i \in 1..Len(seq)}
Without(seq, x) == LET keep(y) == y # x IN SelectSeq(seq, keep)
HasCol(df, c) == c \in Range(df.cols)

\* the order of Python's str on the strings the inputs are built from
str_order ==
    <<"#01491000", "01491000", "01646500", "1991-00-00", "1991-06-15", "1992-07-01",
      "2020-01-01", "2020-01-02">>
str_rank(s) == CHOOSE i \in 1..Len(str_order) : str_order[i] = s

\* the position of a cell in a sorted index: nulls go last
sort_key(c) ==
    CASE c.t = "int" -> c.n
      [] c.t = "str" -> str_rank(c.s)
      [] OTHER -> 1000

RECURSIVE key_less(_, _, _)
key_less(a, b, index) ==
    IF index = <<>> THEN FALSE
    ELSE LET ka == sort_key(a[Head(index)])
             kb == sort_key(b[Head(index)])
         IN IF ka # kb THEN ka < kb ELSE key_less(a, b, Tail(index))

RECURSIVE insert_sorted(_, _, _)
insert_sorted(sorted, row, index) ==
    IF sorted = <<>> THEN <<row>>
    ELSE IF key_less(row, Head(sorted), index) THEN <<row>> \o sorted
    ELSE <<Head(sorted)>> \o insert_sorted(Tail(sorted), row, index)

\* df.sort_index(): rows in the order of their index, ties in their given order
RECURSIVE sort_rows(_, _)
sort_rows(rows, index) ==
    IF rows = <<>> THEN <<>>
    ELSE insert_sorted(sort_rows(SubSeq(rows, 1, Len(rows) - 1), index),
                       rows[Len(rows)], index)

sort_index(df) == Table(df.cols, sort_rows(df.rows, df.index), df.index)

\* df.set_index(keys, inplace=True)
set_index(df, keys) ==
    LET keep(c) == c \notin Range(keys)
    IN Table(SelectSeq(df.cols, keep), df.rows, keys)

\* len(df[col].unique()): NaN counts as one value
unique(df, col) == {df.rows[i][col] : i \in 1..Len(df.rows)}

TableReturned(df) == [raised |-> FALSE, exc |-> "<none>", df |-> df]
TableRaised(exc) == [raised |-> TRUE, exc |-> exc, df |-> EmptyTable(<<>>)]

\* pd.to_datetime(..., errors='coerce') on the date strings of the peaks service
to_datetime_coerce(c) ==
    IF c.t # "str" THEN NoneV
    ELSE CASE c.s = "1991-06-15" -> IntV(1)
           [] c.s = "1992-07-01" -> IntV(2)
           [] OTHER -> NoneV

\* variant of preformat_peaks_response that keeps the rows without a date
preformat_peaks_response_keep_nulls(df) ==
    IF ~HasCol(df, "peak_dt") THEN TableRaised("KeyError")
    ELSE LET popped == Without(df.cols, "peak_dt")
             cols == IF "datetime" \in Range(popped) THEN popped
                     ELSE Append(popped, "datetime")
             conv(r) == [c \in Range(cols) |->
                            IF c = "datetime" THEN to_datetime_coerce(r["peak_dt"])
                            ELSE r[c]]
             all == [i \in 1..Len(df.rows) |-> conv(df.rows[i])]
         IN TableReturned(Table(cols, all, df.index))

preformat_peaks_response(df) ==
    IF ~HasCol(df, "peak_dt") THEN TableRaised("KeyError")
    ELSE LET popped == Without(df.cols, "peak_dt")
             cols == IF "datetime" \in Range(popped) THEN popped
                     ELSE Append(popped, "datetime")
             conv(r) == [c \in Range(cols) |->
                            IF c = "datetime" THEN to_datetime_coerce(r["peak_dt"])
                            ELSE r[c]]
             all == [i \in 1..Len(df.rows) |-> conv(df.rows[i])]
             dated(r) == r["datetime"] # NoneV
         IN TableReturned(Table(cols, SelectSeq(all, dated), df.index))

format_response_single_index(df, service, mi) ==
    LET pre == IF service = "peaks" THEN preformat_peaks_response(df)
               ELSE TableReturned(df)
    IN IF pre.raised THEN pre
       ELSE IF ~HasCol(pre.df, "datetime") THEN pre
       ELSE IF ~HasCol(pre.df, "site_no") THEN TableRaised("KeyError")
       ELSE TableReturned(sort_index(set_index(pre.df, <<"datetime">>)))

format_response(df, service, mi) ==
    LET pre == IF service = "peaks" THEN preformat_peaks_response(df)
               ELSE TableReturned(df)
    IN IF pre.raised THEN pre
       ELSE IF ~HasCol(pre.df, "datetime") THEN pre
       ELSE IF ~HasCol(pre.df, "site_no") THEN TableRaised("KeyError")
       ELSE IF Cardinality(unique(pre.df, "site_no")) > 1 /\ mi
            THEN TableReturned(sort_index(set_index(pre.df, <<"site_no", "datetime">>)))
       ELSE TableReturned(sort_index(set_index(pre.df, <<"datetime">>)))

(***************************************************************************)
(* utils.format_datetime.  A missing cell (NaN) is NoneV.                  *)
(***************************************************************************)
\* dataretrieval.codes.tz: time zone codes and their UTC offsets
tz == [c \in {"EST", "UTC"} |-> IF c = "EST" THEN "-0500" ELSE "+0000"]

\* Series.map(tz): a value that is no key of the table becomes NaN
map_tz(v) == IF v.t = "str" /\ v.s \in DOMAIN tz THEN Str(tz[v.s]) ELSE NoneV

\* elementwise + of string columns: NaN wherever an operand is NaN
str_add(a, b) == IF a.t # "str" \/ b.t # "str" THEN NoneV ELSE Str(a.s \o b.s)

CalendarDates == {"2020-01-01", "2020-01-02"}
ClockTimes == {"12:00"}
Iso8601Text(d, t, z) == d \o " " \o t \o " " \o z
utc_of(d, t, z) == Str(d \o "T" \o (IF z = "-0500" THEN "17:00" ELSE t) \o "Z")

\* pd.to_datetime(..., format='ISO8601', utc=True) of one cell, errors='raise':
\* NaN gives NaT, a text that is no ISO 8601 timestamp raises ValueError
to_datetime_iso8601(v) ==
    IF v.t # "str" THEN NoneV
    ELSE IF \E d \in CalendarDates, t \in ClockTimes, z \in Range2(tz) :
                v.s = Iso8601Text(d, t, z)
         THEN LET w == CHOOSE x \in CalendarDates \X ClockTimes \X Range2(tz) :
                           v.s = Iso8601Text(x[1], x[2], x[3])
              IN utc_of(w[1], w[2], w[3])
    ELSE RaisedV("ValueError")

\* format_datetime: the table it returns and the counts of the warnings it emits
format_datetime(df, date_field, time_field, tz_field) ==
    LET text(r) == str_add(str_add(str_add(str_add(r[date_field], Str(" ")),
                                           r[time_field]), Str(" ")),
                           map_tz(r[tz_field]))
        cols == IF "datetime" \in Range(df.cols) THEN df.cols
                ELSE Append(df.cols, "datetime")
        conv(r) == [c \in Range(cols) |->
                       IF c = "datetime" THEN to_datetime_iso8601(text(r))
                       ELSE IF c = tz_field THEN map_tz(r[c])
                       ELSE r[c]]
        rows == [i \in 1..Len(df.rows) |-> conv(df.rows[i])]
        count == Cardinality({i \in 1..Len(rows) : rows[i]["datetime"] = NoneV})
    IN IF \E i \in 1..Len(rows) : rows[i]["datetime"].t = "raise"
       THEN [raised |-> TRUE, exc |-> "ValueError", df |-> EmptyTable(<<>>),
             warnings |-> <<>>]
       ELSE [raised |-> FALSE, exc |-> "<none>", df |-> Table(cols, rows, df.index),
             warnings |-> IF count > 0 THEN <<count>> ELSE <<>>]

(***************************************************************************)
(* _read_rdb.  The text is the sequence of its lines; a line is its        *)
(* tab-separated fields and whether it begins with '#'.                    *)
(***************************************************************************)
Line(hash, fields) == [hash |-> hash, fields |-> fields]

\* variant of comment_count that counts every line beginning with '#'
RECURSIVE comment_count_anywhere(_)
comment_count_anywhere(lines) ==
    IF lines = <<>> THEN 0
    ELSE (IF Head(lines).hash THEN 1 ELSE 0) + comment_count_anywhere(Tail(lines))

\* the loop of lines 1426-1434: count the lines up to the first without '#'
RECURSIVE comment_count(_)
comment_count(lines) ==
    IF lines = <<>> THEN 0
    ELSE IF Head(lines).hash THEN 1 + comment_count(Tail(lines))
    ELSE 0

\* the text of the first field of a line as read_csv sees it
first_text(line) == IF line.hash THEN "#" \o line.fields[1] ELSE line.fields[1]
field_text(line, i) == IF i = 1 THEN first_text(line) ELSE line.fields[i]

rdb_dtypes == {"site_no", "parm_cd", "parameter_cd"}
is_numeric(text) == text \in {"10", "20"}
to_number(text) == IF text = "10" THEN IntV(10) ELSE IntV(20)
is_na(text) == text \in {"", "NaN"}

\* pd.read_csv(StringIO(rdb), delimiter='\t', skiprows=skiprows, names=names,
\*             na_values='NaN', dtype=dtypes)
read_csv(lines, skiprows, names) ==
    LET data == IF skiprows >= Len(lines) THEN <<>>
                ELSE SubSeq(lines, skiprows + 1, Len(lines))
        present(i, j) == j <= Len(data[i].fields) /\ ~is_na(field_text(data[i], j))
        numeric_col(j) ==
            /\ names[j] \notin rdb_dtypes
            /\ \A i \in 1..Len(data) : present(i, j) => is_numeric(field_text(data[i], j))
        cell(i, j) ==
            IF ~present(i, j) THEN NoneV
            ELSE IF numeric_col(j) THEN to_number(field_text(data[i], j))
            ELSE Str(field_text(data[i], j))
        pos(c) == CHOOSE j \in 1..Len(names) : names[j] = c
    IN IF Cardinality(Range(names)) # Len(names) THEN TableRaised("ValueError")
       ELSE IF \E i \in 1..Len(data) : Len(data[i].fields) > Len(names)
            THEN TableRaised("ParserError")
       ELSE TableReturned(Table(names,
                [i \in 1..Len(data) |-> [c \in Range(names) |-> cell(i, pos(c))]],
                <<>>))

read_rdb(lines) ==
    LET count == comment_count(lines)
    IN IF count >= Len(lines) THEN TableRaised("IndexError")
       ELSE LET fields == [j \in 1..Len(lines[count + 1].fields) |->
                              field_text(lines[count + 1], j)]
                df == read_csv(lines, count + 2, fields)
            IN IF df.raised THEN df ELSE format_response(df.df, "None", TRUE)

(***************************************************************************)
(* _read_json.  The document is json['value']['timeSeries']: a sequence of *)
(* series, each with its site, variable code, option and value groups; a   *)
(* value group has a method description and a list of records.             *)
(***************************************************************************)
Record(dateTime, value) == [dateTime |-> dateTime, value |-> value, qualifiers |-> "A"]
Group(method, value) == [method |-> method, value |-> value]
Series(site, param, option, values) ==
    [site |-> site, param |-> param, option |-> option, values |-> values]

\* method.strip('[]()').lower() on the method descriptions of the inputs
sanitize(method) == IF method \in {"Mean", "[Mean]"} THEN "mean" ELSE method

\* lines 1356-1366
col_name(param_cd, method, option) ==
    LET with_method == IF method # "" THEN param_cd \o "_" \o sanitize(method)
                       ELSE param_cd
    IN IF option # "" THEN with_method \o "_" \o option ELSE with_method

\* variant: an empty record list is parsed like any other
record_skipped_never(record_json) == FALSE

\* line 1370: if not record_json
record_skipped(record_json) == record_json = <<>>

\* pd.read_json of the records and the renaming of its columns (lines 1378-1396)
record_df(col, record_json) ==
    IF record_json = <<>> THEN TableRaised("KeyError")
    ELSE TableReturned(Table(<<col, col \o "_cd", "datetime">>,
            [i \in 1..Len(record_json) |->
                [c \in {col, col \o "_cd", "datetime"} |->
                    IF c = "datetime" THEN Str(record_json[i].dateTime)
                    ELSE IF c = col THEN IntV(record_json[i].value)
                    ELSE Str(record_json[i].qualifiers)]],
            <<>>))

\* left.merge(right, how='outer', on='datetime'): the keys of both sides in
\* sorted order, a column name both sides have suffixed _x and _y
merge(left, right) ==
    LET overlap == (Range(left.cols) \cap Range(right.cols)) \ {"datetime"}
        lname(c) == IF c \in overlap THEN c \o "_x" ELSE c
        rname(c) == IF c \in overlap THEN c \o "_y" ELSE c
        rcols == Without(right.cols, "datetime")
        cols == [i \in 1..Len(left.cols) |-> lname(left.cols[i])]
                \o [i \in 1..Len(rcols) |-> rname(rcols[i])]
        keys == {left.rows[i]["datetime"].s : i \in 1..Len(left.rows)}
                \cup {right.rows[i]["datetime"].s : i \in 1..Len(right.rows)}
        in_keys(s) == s \in keys
        sorted == SelectSeq(str_order, in_keys)
        lrow(k) == {i \in 1..Len(left.rows) : left.rows[i]["datetime"].s = k}
        rrow(k) == {i \in 1..Len(right.rows) : right.rows[i]["datetime"].s = k}
        cell(k, c) ==
            IF c = "datetime" THEN Str(k)
            ELSE IF \E d \in Range(left.cols) : lname(d) = c
                 THEN IF lrow(k) = {} THEN NoneV
                      ELSE left.rows[CHOOSE i \in lrow(k) : TRUE]
                                    [CHOOSE d \in Range(left.cols) : lname(d) = c]
            ELSE IF rrow(k) = {} THEN NoneV
                 ELSE right.rows[CHOOSE i \in rrow(k) : TRUE]
                                [CHOOSE d \in Range(rcols) : rname(d) = c]
    IN IF Cardinality(Range(cols)) # Len(cols) THEN TableRaised("MergeError")
       ELSE TableReturned(Table(cols,
                [i \in 1..Len(sorted) |-> [c \in Range(cols) |-> cell(sorted[i], c)]],
                <<>>))

\* the loop over timeseries['values'] (lines 1355-1398)
RECURSIVE merge_parameters(_, _, _, _)
merge_parameters(site_df, param_cd, option, values) ==
    IF values = <<>> \/ site_df.raised THEN site_df
    ELSE LET parameter == Head(values)
             col == col_name(param_cd, parameter.method, option)
             rec == record_df(col, parameter.value)
             next == IF record_skipped(parameter.value) THEN site_df
                     ELSE IF rec.raised THEN rec
                     ELSE merge(site_df.df, rec.df)
         IN merge_parameters(next, param_cd, option, Tail(values))

\* the loop over the series of one site block (lines 1348-1398)
RECURSIVE merge_block(_, _)
merge_block(site_df, site_block) ==
    IF site_block = <<>> \/ site_df.raised THEN site_df
    ELSE merge_block(merge_parameters(site_df, Head(site_block).param,
                                      Head(site_block).option, Head(site_block).values),
                     Tail(site_block))

\* site_df['site_no'] = site_no
assign_column(df, col, value) ==
    Table(IF HasCol(df, col) THEN df.cols ELSE Append(df.cols, col),
          [i \in 1..Len(df.rows) |->
              [c \in Range(df.cols) \cup {col} |-> IF c = col THEN value ELSE df.rows[i][c]]],
          df.index)

\* pd.concat([a, b]): the columns of a, then the new ones of b; the rows of a,
\* then those of b; a cell of a column the frame lacks is null
pd_concat(a, b) ==
    LET new(c) == c \notin Range(a.cols)
        cols == a.cols \o SelectSeq(b.cols, new)
        widen(df, r) == [c \in Range(cols) |-> IF c \in Range(df.cols) THEN r[c] ELSE NoneV]
    IN Table(cols,
             [i \in 1..Len(a.rows) |-> widen(a, a.rows[i])]
             \o [i \in 1..Len(b.rows) |-> widen(b, b.rows[i])],
             <<>>)

\* lines 1330-1334: where the site number changes from one series to the next
index_list(site_list) ==
    LET changes(i) == site_list[i] # site_list[i + 1]
    IN <<0>>
       \o [k \in 1..Len(SelectSeq([i \in 1..(Len(site_list) - 1) |-> i], changes)) |->
              SelectSeq([i \in 1..(Len(site_list) - 1) |-> i], changes)[k]]
       \o <<Len(site_list)>>

\* pd.to_datetime(merged_df['datetime'], utc=True) on the time stamps of the inputs
to_datetime_utc(c) ==
    IF c.t # "str" THEN NoneV
    ELSE CASE c.s = "2020-01-01" -> IntV(1)
           [] c.s = "2020-01-02" -> IntV(2)
           [] OTHER -> NoneV

\* the loop over the site blocks (lines 1336-1402)
RECURSIVE merge_sites(_, _, _, _)
merge_sites(merged_df, timeSeries, idx, i) ==
    IF i > Len(idx) - 1 \/ merged_df.raised THEN merged_df
    ELSE LET site_block == SubSeq(timeSeries, idx[i] + 1, idx[i + 1])
             site_df == merge_block(TableReturned(EmptyTable(<<"datetime">>)), site_block)
             next == IF site_block = <<>> THEN merged_df
                     ELSE IF site_df.raised THEN site_df
                     ELSE TableReturned(pd_concat(merged_df.df,
                              assign_column(site_df.df, "site_no",
                                            Str(site_block[1].site))))
         IN merge_sites(next, timeSeries, idx, i + 1)

read_json(timeSeries) ==
    LET site_list == [i \in 1..Len(timeSeries) |-> timeSeries[i].site]
        merged == merge_sites(TableReturned(EmptyTable(<<"site_no", "datetime">>)),
                              timeSeries, index_list(site_list), 1)
    IN IF merged.raised THEN merged
       ELSE TableReturned(Table(merged.df.cols,
                [i \in 1..Len(merged.df.rows) |->
                    [c \in Range(merged.df.cols) |->
                        IF c = "datetime" THEN to_datetime_utc(merged.df.rows[i][c])
                        ELSE merged.df.rows[i][c]]],
                <<>>))

(***************************************************************************)
(* get_ogc_data after the walk: the table of the features the service      *)
(* returned, made into the table the caller gets (waterdata/utils.py).     *)
(***************************************************************************)
\* service.replace("-", "_") + "_id" and its singular form, for the services modelled
service_id(service) ==
    CASE service = "daily" -> "daily_id"
      [] service = "monitoring-locations" -> "monitoring_locations_id"
      [] OTHER -> service \o "_id"
service_id_singular(service) ==
    CASE service = "monitoring-locations" -> "monitoring_location_id"
      [] OTHER -> ""
\* p.replace("-", "_") on the property names of the inputs
underscored(p) == IF p = "parameter-code" THEN "parameter_code" ELSE p

switch_properties_id(properties, id_name, service) ==
    IF properties = <<>> THEN <<>>
    ELSE LET id_fields == {service_id(service), service_id_singular(service), id_name}
             switched == [i \in 1..Len(properties) |->
                             IF properties[i] \in id_fields THEN "id"
                             ELSE underscored(properties[i])]
             wanted(p) == p \notin {"geometry", service_id(service)}
         IN SelectSeq(switched, wanted)

\* the properties of the features of a collection, in the order the service gives them
collection_properties(service) ==
    IF service = "daily" THEN <<"monitoring_location_id", "parameter_code", "value">>
    ELSE <<"agency_code", "site_type_code">>

\* the columns of the features the service returns for a request
feature_properties(service, requested) ==
    LET asked(p) == p \in Range(requested)
    IN IF requested = <<>> THEN collection_properties(service)
       ELSE SelectSeq(collection_properties(service), asked)

\* the table _get_resp_data makes of the features (lines 498-519), with n features
features_frame(service, requested, skip_geometry, geopd, n) ==
    LET props == feature_properties(service, requested)
        cols == IF n = 0 THEN <<>>
                ELSE IF geopd THEN <<"id">> \o (IF skip_geometry THEN <<>> ELSE <<"geometry">>)
                                   \o props
                ELSE <<"id">> \o (IF skip_geometry THEN <<>>
                                  ELSE <<"geometry_type", "geometry">>) \o props
    IN Table(cols, [i \in 1..n |-> [c \in Range(cols) |-> Str(c)]], <<>>)

deal_with_empty(return_list, properties, service) ==
    IF return_list.rows = <<>>
    THEN IF properties = <<>>
         THEN EmptyTable(<<"id">> \o collection_properties(service) \o <<"geometry">>)
         ELSE EmptyTable(properties)
    ELSE return_list

\* list(seq).index(x)
index_of(seq, x) == CHOOSE i \in 1..Len(seq) : seq[i] = x /\ \A j \in 1..(i - 1) : seq[j] # x

extra_id_cols ==
    {"latest_continuous_id", "latest_daily_id", "daily_id", "continuous_id",
     "field_measurement_id"}

select_columns(df, cols) ==
    Table(cols, [i \in 1..Len(df.rows) |-> [c \in Range(cols) |-> df.rows[i][c]]], df.index)

\* _arrange_cols: the table returned, and the list properties as the call leaves it
arrange_cols(df, properties, output_id) ==
    LET name(c) == IF c = "id" THEN output_id ELSE c
        renamed == Table([i \in 1..Len(df.cols) |-> name(df.cols[i])],
                         [i \in 1..Len(df.rows) |->
                             [c \in {name(d) : d \in Range(df.cols)} |->
                                 df.rows[i][CHOOSE d \in Range(df.cols) : name(d) = c]]],
                         df.index)
        present(c) == c \in Range(renamed.cols)
        with_geometry == IF present("geometry") /\ "geometry" \notin Range(properties)
                         THEN Append(properties, "geometry") ELSE properties
        with_id == IF "id" \in Range(with_geometry)
                   THEN [with_geometry EXCEPT ![index_of(with_geometry, "id")] = output_id]
                   ELSE with_geometry
        plain(c) == c \notin extra_id_cols
        extra(c) == c \in extra_id_cols
    IN IF properties # <<>>
       THEN [df |-> select_columns(renamed, SelectSeq(with_id, present)),
             properties |-> with_id]
       ELSE [df |-> select_columns(renamed, SelectSeq(renamed.cols, plain)
                                            \o SelectSeq(renamed.cols, extra)),
             properties |-> properties]

\* get_ogc_data from line 801 on, given the table of the walk
ogc_table(return_list, properties, output_id, service) ==
    arrange_cols(deal_with_empty(return_list, properties, service), properties, output_id)

\* get_ogc_data: the service rejects a request for a property it does not have
get_ogc_data(args) ==
    LET requested == switch_properties_id(args.properties, args.output_id, args.service)
        known == Range(collection_properties(args.service)) \cup {"id"}
        walked == features_frame(args.service, requested, args.skip_geometry,
                                 args.geopd, args.n)
        out == ogc_table(walked, args.properties, args.output_id, args.service)
    IN IF Range(requested) \subseteq known
       THEN [raised |-> FALSE, exc |-> "<none>", df |-> out.df, properties |-> out.properties]
       ELSE [raised |-> TRUE, exc |-> "Exception", df |-> EmptyTable(<<>>),
             properties |-> args.properties]

(***************************************************************************)
(* waterdata/utils.py: _construct_api_requests.  Keyword arguments are a   *)
(* function from names to values; a value is a string, a list of strings   *)
(* or, in the parameters built, None.                                      *)
(***************************************************************************)
ParsedDates == {"2020-01-01", "2020-01-31"}
HasP(s) == s = "P7D"
HasSlash(s) == s = "2020-01-01/.."
IsBlank(s) == s = ""

RECURSIVE join_with(_, _)
join_with(parts, sep) ==
    IF parts = <<>> THEN ""
    ELSE IF Len(parts) = 1 THEN parts[1]
    ELSE parts[1] \o sep \o join_with(Tail(parts), sep)

\* _format_api_dates, with the local time zone being UTC
format_api_dates(datetime_input, date) ==
    LET input == IF datetime_input.t = "str" THEN <<datetime_input.s>>
                 ELSE datetime_input.xs
        stamp(d) == IF date THEN d ELSE d \o "T00:00:00Z"
    IN IF \A i \in 1..Len(input) : IsBlank(input[i]) THEN NoneV
       ELSE IF Len(input) > 2 THEN RaisedV("ValueError")
       ELSE IF (Len(input) = 1 /\ HasP(input[1])) \/ HasSlash(input[1])
            THEN Str(input[1])
       ELSE IF \E i \in 1..Len(input) : input[i] \notin ParsedDates THEN NoneV
       ELSE Str(join_with([i \in 1..Len(input) |-> stamp(input[i])], "/"))

single_params == {"datetime", "last_modified", "begin", "end", "time"}
time_periods == {"last_modified", "datetime", "time", "begin", "end"}

\* isinstance(v, (list, tuple)) and len(v) > 1
multi_valued(v) == v.t = "list" /\ Len(v.xs) > 1

\* lines 380-384: the arguments that go into the POST body
post_params(kwargs) ==
    [k \in {x \in DOMAIN kwargs : x \notin single_params /\ multi_valued(kwargs[x])}
        |-> kwargs[k]]

\* _cql2_param: one "in" filter per argument
cql2_param(args) == [op |-> "and", args |-> args]

default_headers == [k \in {"Accept", "User-Agent"} |->
                       IF k = "Accept" THEN "application/json" ELSE "python-dataretrieval"]

NoBody == [op |-> "<no body>", args |-> EmptyDict]

\* requests drops the parameters whose value is None when it prepares the URL
url_query(params) == [k \in {x \in DOMAIN params : params[x] # NoneV} |-> params[k]]

construct_api_requests(service, properties, bbox, limit, skip_geometry, kwargs) ==
    LET post == post_params(kwargs)
        p1 == [k \in DOMAIN kwargs \ DOMAIN post |-> kwargs[k]]
        p2 == Put(p1, "skipGeometry", BoolV(skip_geometry))
        p3 == Put(p2, "limit",
                  IF limit = NoneV \/ limit.n > 50000 THEN IntV(50000) ELSE limit)
        dates(i) == service = "daily" /\ i # "last_modified"
        p4 == [k \in DOMAIN p3 |->
                  IF k \in time_periods THEN format_api_dates(p3[k], dates(k)) ELSE p3[k]]
        p5 == IF bbox # <<>> THEN Put(p4, "bbox", Str(join_with(bbox, ","))) ELSE p4
        params == IF properties # <<>>
                  THEN Put(p5, "properties", Str(join_with(properties, ",")))
                  ELSE p5
        service_url == "https://api.waterdata.usgs.gov/ogcapi/v0/collections/"
                       \o service \o "/items"
    IN IF \E k \in DOMAIN p4 : p4[k].t = "raise"
       THEN [raised |-> TRUE, exc |-> "ValueError", method |-> "<none>", url |-> "",
             headers |-> default_headers, params |-> EmptyDict, body |-> NoBody]
       ELSE IF DOMAIN post # {}
       THEN [raised |-> FALSE, exc |-> "<none>", method |-> "POST", url |-> service_url,
             headers |-> Put(default_headers, "Content-Type", "application/query-cql-json"),
             params |-> url_query(params), body |-> cql2_param(post)]
       ELSE [raised |-> FALSE, exc |-> "<none>", method |-> "GET", url |-> service_url,
             headers |-> default_headers, params |-> url_query(params), body |-> NoBody]

(***************************************************************************)
(* The arguments the parsers and formatters are applied to.                *)
(***************************************************************************)
SeqsUpTo(S, n) == UNION {[1..k -> S] : k \in 0..n}

SiteNumbers == {"01491000", "01646500"}
TimeStamps == {"2020-01-01", "2020-01-02"}
PeakDates == {"1991-06-15", "1991-00-00", "1992-07-01"}

Row3(a, x, b, y, c, z) == [k \in {a, b, c} |-> IF k = a THEN x ELSE IF k = b THEN y ELSE z]
Row2(a, x, b, y) == [k \in {a, b} |-> IF k = a THEN x ELSE y]

SeriesTables ==
    {Table(<<"site_no", "datetime", "00060">>, rows, <<>>) :
        rows \in SeqsUpTo({Row3("site_no", Str(s), "datetime", to_datetime_utc(Str(d)),
                                "00060", IntV(10)) : s \in SiteNumbers, d \in TimeStamps},
                          MaxRows)}
SiteTables ==
    {Table(<<"site_no", "00060">>, rows, <<>>) :
        rows \in SeqsUpTo({Row2("site_no", Str(s), "00060", IntV(10)) : s \in SiteNumbers},
                          MaxRows)}
PeakTables ==
    {Table(<<"site_no", "peak_dt", "peak_va">>, rows, <<>>) :
        rows \in SeqsUpTo({Row3("site_no", Str(s), "peak_dt", Str(d), "peak_va", IntV(10)) :
                              s \in SiteNumbers, d \in PeakDates},
                          MaxRows)}

\* peak tables as the test of preformat_peaks_response builds them: peak_dt is a
\* date string, a string that is no calendar date, or missing
PeakFrames ==
    {Table(<<"peak_dt", "peak_va">>, rows, <<>>) :
        rows \in SeqsUpTo({Row2("peak_dt", d, "peak_va", IntV(v)) :
                              d \in {Str(s) : s \in PeakDates} \cup {NoneV}, v \in {10, 20}},
                          MaxRows)}
PeakInputs == {[fn |-> "preformat_peaks_response", df |-> df] : df \in PeakFrames}

\* ground-water level tables: a date that is a calendar date, one that is not,
\* or none; a time or none; a time zone code of the table or another one
LevelFrames ==
    {Table(<<"lev_dt", "lev_tm", "lev_tz_cd">>, rows, <<>>) :
        rows \in SeqsUpTo({Row3("lev_dt", d, "lev_tm", t, "lev_tz_cd", Str(z)) :
                              d \in {Str("2020-01-01"), Str("2020-13-45"), NoneV},
                              t \in {Str("12:00"), NoneV},
                              z \in {"EST", "XXX"}},
                          MaxRows)}
DatetimeInputs == {[fn |-> "format_datetime", df |-> df] : df \in LevelFrames}

\* the arguments of _construct_api_requests
FilterValues == {Str("USGS-01491000"), ListV(<<"USGS-01491000">>),
                 ListV(<<"USGS-01491000", "USGS-01646500">>)}
TimeValues == {Str("2020-01-01"), Str("P7D"), Str("last week"),
               ListV(<<"2020-01-01", "2020-01-31">>),
               ListV(<<"2020-01-01", "2020-01-31", "2020-01-31">>)}
FilterKwargs ==
    UNION {[ks -> FilterValues] : ks \in SUBSET {"monitoring_location_id", "parameter_code"}}
TimeKwargs == UNION {[ks -> TimeValues] : ks \in SUBSET {"datetime"}}
RequestInputs ==
    {[fn |-> "_construct_api_requests", service |-> sv, properties |-> ps, bbox |-> bb,
      limit |-> lim, skip_geometry |-> sk, kwargs |-> Update(f, t)] :
        sv \in {"daily", "monitoring-locations"},
        ps \in {<<>>, <<"id", "value">>},
        bb \in {<<>>, <<"-92.8", "44.2", "-88.9", "46.0">>},
        lim \in {NoneV, IntV(10), IntV(60000)},
        sk \in BOOLEAN, f \in FilterKwargs, t \in TimeKwargs}

FormatInputs ==
    {[fn |-> "format_response", df |-> df, service |-> "None", mi |-> mi] :
        df \in SeriesTables \cup SiteTables, mi \in BOOLEAN}
    \cup {[fn |-> "format_response", df |-> df, service |-> "peaks", mi |-> mi] :
            df \in PeakTables, mi \in BOOLEAN}

RdbHeaders == {<<"site_no", "datetime", "val">>, <<"site_no", "val">>}
RdbDataLines(h) ==
    {Line(FALSE, IF Len(h) = 3 THEN <<s, d, "10">> ELSE <<s, "10">>) :
        s \in SiteNumbers, d \in TimeStamps}
    \cup {Line(TRUE, IF Len(h) = 3 THEN <<"01491000", "2020-01-01", "10">>
                     ELSE <<"01491000", "10">>)}
TypeLine(h) == Line(FALSE, IF Len(h) = 3 THEN <<"15s", "20d", "14n">> ELSE <<"15s", "14n">>)
CommentLines == SeqsUpTo({Line(TRUE, <<" retrieved: 2020-01-03">>)}, MaxComments)

RdbInputs ==
    UNION {{[fn |-> "_read_rdb", rdb |-> c \o <<Line(FALSE, h), TypeLine(h)>> \o rows] :
               c \in CommentLines, rows \in SeqsUpTo(RdbDataLines(h), MaxRows)} :
           h \in RdbHeaders}
    \cup {[fn |-> "_read_rdb", rdb |-> c] : c \in CommentLines}

RecordLists ==
    {<<>>, <<Record("2020-01-01", 10)>>,
     <<Record("2020-01-01", 20), Record("2020-01-02", 20)>>}
SeriesChoices ==
    {Series(s, v[1], "", <<Group(v[2], r)>>) :
        s \in SiteNumbers, v \in {<<"00060", "">>, <<"00065", "Mean">>}, r \in RecordLists}
JsonInputs ==
    {[fn |-> "_read_json", timeSeries |-> ts] : ts \in SeqsUpTo(SeriesChoices, MaxSeries)}

OgcServices ==
    {[service |-> "daily", output_id |-> "daily_id"],
     [service |-> "monitoring-locations", output_id |-> "monitoring_location_id"]}
PropertyNames(service) ==
    IF service = "daily"
    THEN {"id", "daily_id", "monitoring_location_id", "parameter-code", "value", "geometry"}
    ELSE {"id", "monitoring_location_id", "monitoring_locations_id", "agency_code",
          "geometry"}
PropertyLists(service) ==
    {ps \in SeqsUpTo(PropertyNames(service), MaxProps) :
        \A i, j \in 1..Len(ps) : i # j => ps[i] # ps[j]}
OgcInputs ==
    UNION {{[fn |-> "get_ogc_data", service |-> sv.service, output_id |-> sv.output_id,
             properties |-> ps, skip_geometry |-> sk, geopd |-> g, n |-> n] :
               ps \in PropertyLists(sv.service), sk \in BOOLEAN, g \in BOOLEAN,
               n \in {0, 1}} : sv \in OgcServices}

NoTable == TableReturned(EmptyTable(<<>>))

InitParseIdle ==
    /\ ppc = "idle"
    /\ p_in = [fn |-> "<none>"]
    /\ p_out = NoTable

InitParse ==
    /\ ppc = "ready"
    /\ p_in \in FormatInputs \cup RdbInputs \cup JsonInputs \cup OgcInputs \cup PeakInputs
                \cup DatetimeInputs \cup RequestInputs
    /\ p_out = NoTable

Apply(fn, result) ==
    /\ ppc = "ready"
    /\ p_in.fn = fn
    /\ ppc' = "done"
    /\ p_out' = result
    /\ UNCHANGED <<p_in, walk_vars, query_vars, api_vars, module_vars>>

FormatResponse == Apply("format_response", format_response(p_in.df, p_in.service, p_in.mi))
ReadRdb == Apply("_read_rdb", read_rdb(p_in.rdb))
ReadJson == Apply("_read_json", read_json(p_in.timeSeries))
GetOgcData == Apply("get_ogc_data", get_ogc_data(p_in))
FormatDatetime ==
    Apply("format_datetime", format_datetime(p_in.df, "lev_dt", "lev_tm", "lev_tz_cd"))
ConstructApiRequests ==
    Apply("_construct_api_requests",
          construct_api_requests(p_in.service, p_in.properties, p_in.bbox, p_in.limit,
                                 p_in.skip_geometry, p_in.kwargs))
PreformatPeaks ==
    Apply("preformat_peaks_response", preformat_peaks_response(p_in.df))

(***************************************************************************)
(* Module-level and class-level state: nldi._AVAILABLE_DATA_SOURCES and    *)
(* the attributes of the class streamstats.Watershed.                      *)
(***************************************************************************)
NLDI_API_BASE_URL == "https://labs.waterdata.usgs.gov/api/nldi/linked-data"

\* _AVAILABLE_DATA_SOURCES: None, or the list of source names
NoSources == [cached |-> FALSE, sources |-> <<>>]
Sources(list) == [cached |-> TRUE, sources |-> list]

\* what the NLDI service answers to one request
NldiAnswer(status, json_ok, data) == [status |-> status, json_ok |-> json_ok, data |-> data]

\* _query_nldi: query, then the status check, then response.json()
query_nldi(url, answer) ==
    LET o == query_outcome(QResponse(answer.status, <<"{...}">>, HttpGet(url, <<>>)))
    IN IF o.kind = "raised" THEN [raised |-> TRUE, exc |-> o.exc, data |-> <<>>]
       ELSE IF answer.status # 200 THEN [raised |-> TRUE, exc |-> "ValueError", data |-> <<>>]
       ELSE [raised |-> FALSE, exc |-> "<none>",
             data |-> IF answer.json_ok THEN answer.data ELSE <<>>]

\* _validate_data_source: the cache it leaves, the requests it issues, its verdict
validate_data_source(cache, data_source, answer) ==
    LET url == NLDI_API_BASE_URL \o "/"
        q == query_nldi(url, answer)
    IN IF cache.cached
       THEN [cache |-> cache, requests |-> <<>>, raised |-> FALSE, exc |-> "<none>"]
       ELSE IF q.raised
            THEN [cache |-> cache, requests |-> <<url>>, raised |-> TRUE, exc |-> q.exc]
       ELSE IF data_source \notin Range(q.data)
            THEN [cache |-> Sources(q.data), requests |-> <<url>>, raised |-> TRUE,
                  exc |-> "ValueError"]
       ELSE [cache |-> Sources(q.data), requests |-> <<url>>, raised |-> FALSE,
             exc |-> "<none>"]

get_features_by_data_source(cache, data_source, catalogue, features) ==
    LET v == validate_data_source(cache, data_source, catalogue)
        url == NLDI_API_BASE_URL \o "/" \o data_source
        q == query_nldi(url, features)
    IN IF v.raised
       THEN [cache |-> v.cache, requests |-> v.requests, outcome |-> v.exc,
             rejected |-> TRUE]
       ELSE [cache |-> v.cache, requests |-> Append(v.requests, url),
             outcome |-> IF q.raised THEN q.exc ELSE "returned", rejected |-> FALSE]

AvailableSources == <<"nwissite", "wqp">>
DataSources == {"nwissite", "wqp", "bogus"}
CatalogueAnswers ==
    {NldiAnswer(200, TRUE, AvailableSources), NldiAnswer(200, FALSE, <<>>),
     NldiAnswer(500, TRUE, <<>>)}
\* the service has features for its own sources only
FeaturesAnswers(data_source) ==
    IF data_source \in Range(AvailableSources)
    THEN {NldiAnswer(200, TRUE, <<"feature">>), NldiAnswer(500, TRUE, <<>>)}
    ELSE {NldiAnswer(404, TRUE, <<>>)}

InitModuleVars ==
    /\ available_data_sources = NoSources
    /\ nldi_calls = <<>>
    /\ watershed_cls = "<unset>"
    /\ watersheds = <<>>
    /\ cached_base_url = "<none>"
    /\ base_urls = <<>>

\* one call of nldi.get_features_by_data_source
NldiCall ==
    /\ Len(nldi_calls) + Len(watersheds) + Len(base_urls) < MaxCalls
    /\ \E ds \in DataSources, catalogue \in CatalogueAnswers :
        \E features \in FeaturesAnswers(ds) :
            LET r == get_features_by_data_source(available_data_sources, ds,
                                                 catalogue, features)
            IN /\ available_data_sources' = r.cache
               /\ nldi_calls' = Append(nldi_calls,
                                    [data_source |-> ds, catalogue |-> catalogue,
                                     features |-> features, requests |-> r.requests,
                                     outcome |-> r.outcome, rejected |-> r.rejected,
                                     cached |-> available_data_sources.cached])
    /\ UNCHANGED <<watershed_cls, watersheds, cached_base_url, base_urls>>
    /\ UNCHANGED <<walk_vars, query_vars, api_vars, parse_vars>>

\* what a caller holding a value returned by get_watershed reads as its
\* _workspaceID: a Response keeps its own text, the class Watershed shows the
\* class attribute
workspace_of(value, cls) == IF value.kind = "class" THEN cls ELSE value.workspaceID

\* one call of streamstats.get_watershed: a failed request raises, format
\* 'geojson' returns the response, any other format stores the answer on the
\* class Watershed (from_streamstats_json) and returns the class
WatershedCall ==
    /\ Len(nldi_calls) + Len(watersheds) + Len(base_urls) < MaxCalls
    /\ \E format \in {"geojson", "object"}, status \in {200, 500},
          workspaceID \in {"ws1", "ws2"} :
        IF status # 200
        THEN /\ watersheds' = Append(watersheds,
                                 [kind |-> "raised", workspaceID |-> "<none>"])
             /\ UNCHANGED watershed_cls
        ELSE IF format = "geojson"
        THEN /\ watersheds' = Append(watersheds,
                                 [kind |-> "response", workspaceID |-> workspaceID])
             /\ UNCHANGED watershed_cls
        ELSE /\ watershed_cls' = workspaceID
             /\ watersheds' = Append(watersheds,
                                 [kind |-> "class", workspaceID |-> workspaceID])
    /\ UNCHANGED <<available_data_sources, nldi_calls, cached_base_url, base_urls>>
    /\ UNCHANGED <<walk_vars, query_vars, api_vars, parse_vars>>

BASE_API == "https://api.waterdata.usgs.gov/ogcapi/"
API_VERSION == "v0"

\* waterdata_helpers._base_url: the cache it leaves and the URL it returns
base_url(cache) ==
    LET filled == IF cache = "<none>" THEN BASE_API \o API_VERSION \o "/" ELSE cache
    IN [cache |-> filled, url |-> filled]

\* one call of waterdata_helpers._base_url
BaseUrlCall ==
    /\ Len(nldi_calls) + Len(watersheds) + Len(base_urls) < MaxCalls
    /\ cached_base_url' = base_url(cached_base_url).cache
    /\ base_urls' = Append(base_urls, base_url(cached_base_url).url)
    /\ UNCHANGED <<available_data_sources, nldi_calls, watershed_cls, watersheds>>
    /\ UNCHANGED <<walk_vars, query_vars, api_vars, parse_vars>>

InitApi == InitWalkIdle /\ InitQueryIdle /\ InitApiIdle /\ InitParseIdle /\ InitModuleVars
NextApi == ApiCall \/ ApiAnswer \/ AccessSiteInfo \/ AccessVariableInfo
SpecApi == InitApi /\ [][NextApi]_vars

InitWalk == InitWalkVars /\ InitQueryIdle /\ InitApiIdle /\ InitParseIdle /\ InitModuleVars
NextWalk == WalkFirstPage \/ WalkNextPage
SpecWalk == InitWalk /\ [][NextWalk]_vars

InitQuery == InitWalkIdle /\ InitQueryIdle /\ InitApiIdle /\ InitParseIdle /\ InitModuleVars
NextQuery == QueryCall \/ QueryTransportError \/ QueryAnswer
SpecQuery == InitQuery /\ [][NextQuery]_vars

InitParseAll == InitWalkIdle /\ InitQueryIdle /\ InitApiIdle /\ InitParse /\ InitModuleVars
NextParse == FormatResponse \/ ReadRdb \/ ReadJson \/ GetOgcData \/ PreformatPeaks
             \/ FormatDatetime \/ ConstructApiRequests
SpecParse == InitParseAll /\ [][NextParse]_vars

InitModule == InitWalkIdle /\ InitQueryIdle /\ InitApiIdle /\ InitParseIdle /\ InitModuleVars
NextModule == NldiCall \/ WatershedCall \/ BaseUrlCall
SpecModule == InitModule /\ [][NextModule]_vars

(***************************************************************************)
(* Vocabulary of the pagination claims, stated on the answers received.    *)
(***************************************************************************)
PageOk(p) == p.kind = "resp" /\ p.status = 200 /\ p.json_ok
PageEmpty(p) == p.nr = 0 \/ p.nr = Absent
HasNextLink(p) == \E i \in 1..Len(p.links) : p.links[i].rel = "next"
NextLinkHref(p) ==
    LET i == CHOOSE j \in 1..Len(p.links) :
                 /\ p.links[j].rel = "next"
                 /\ \A m \in 1..(j-1) : p.links[m].rel # "next"
    IN p.links[i].href
PageContinues(p) == ~PageEmpty(p) /\ HasNextLink(p)
RequestFailed(p) == p.kind = "exc" \/ p.status # 200
PageFailed(p) == RequestFailed(p) \/ ~p.json_ok

RECURSIVE RowsOfPages(_)
RowsOfPages(n) == IF n = 0 THEN <<>> ELSE RowsOfPages(n - 1) \o pages[n].features

AllOkBefore(k) == \A i \in 1..(k - 1) : PageOk(pages[i])

\* C1: along a chain of pages all answering 200, the walker issues one request
\* per page, the first to the prepared URL and each later one to the next-link
\* href of the page before; it goes on exactly while the page received is
\* non-empty and carries a next link, and at the first page that is empty or has
\* no next link it returns the rows of all pages received, in page order.
C1_PaginationTermination ==
    (\A i \in 1..Len(pages) : PageOk(pages[i])) =>
        /\ Len(sent) = Len(pages)
        /\ Len(pages) >= 1 => sent[1].url = req.url
        /\ \A i \in 1..(Len(pages) - 1) :
              /\ PageContinues(pages[i])
              /\ sent[i + 1].url = NextLinkHref(pages[i])
        /\ (Len(pages) >= 1 /\ ~PageContinues(pages[Len(pages)])) =>
              /\ wpc = "returned"
              /\ walk_out.kind = "returned"
              /\ walk_out.rows = RowsOfPages(Len(pages))
        /\ (Len(pages) >= 1 /\ PageContinues(pages[Len(pages)])) => wpc = "loop"

\* a walk of three pages, the last one non-empty and without next link, has returned
C1_Witness ==
    /\ wpc = "returned"
    /\ Len(pages) = 3
    /\ \A i \in 1..3 : PageOk(pages[i])
    /\ ~HasNextLink(pages[3])
    /\ ~PageEmpty(pages[3])
    /\ Len(walk_out.rows) >= 3

\* C2: when the first page answers with a status other than 200 the walker
\* raises, returns no table, and exactly one request has been issued.
C2_FirstPageFailureRaises ==
    (Len(pages) >= 1 /\ pages[1].kind = "resp" /\ pages[1].status # 200) =>
        /\ wpc = "raised"
        /\ walk_out.kind = "raised"
        /\ walk_out.rows = <<>>
        /\ Len(sent) = 1
        /\ Len(pages) = 1

C2_Witness ==
    /\ wpc = "raised"
    /\ Len(pages) = 1
    /\ pages[1].kind = "resp"
    /\ pages[1].status = 500
    /\ Len(sent) = 1

\* C3: when pages 1..k-1 succeed and the request for page k (k >= 2) fails, the
\* walker returns exactly the rows of pages 1..k-1 in page order, emits a
\* warning, and issues no request after the failed one.
C3_SubsequentFailureReturnsPartial ==
    \A k \in 2..Len(pages) :
        (AllOkBefore(k) /\ RequestFailed(pages[k])) =>
            /\ wpc = "returned"
            /\ walk_out.kind = "returned"
            /\ walk_out.rows = RowsOfPages(k - 1)
            /\ Len(warned) = 1
            /\ Len(sent) = k

\* C4: no failure of a page k >= 2 (a non-200 status, an exception of the HTTP
\* client while sending, an exception while decoding the body) propagates out
\* of the walker: it returns normally with the rows accumulated so far.
C4_SubsequentFailureNeverRaised ==
    \A k \in 2..Len(pages) :
        (AllOkBefore(k) /\ PageFailed(pages[k])) =>
            /\ walk_out.kind # "raised"
            /\ wpc = "returned"
            /\ walk_out.rows = RowsOfPages(k - 1)

(***************************************************************************)
(* Vocabulary of the claims about query.                                   *)
(***************************************************************************)
BeginsWithSentinel(body) == body # <<>> /\ Head(body) = "No sites/data"
Answered == qpc = "done" /\ q_resp.kind = "resp"

\* C8: a 400 answer raises an error whose message carries the request URL,
\* whatever its body; an answer that passes the status checks and whose body
\* begins with 'No sites/data' raises NoSitesError whose message carries the
\* request URL.
C8_QueryErrorMapping ==
    Answered =>
        /\ q_resp.status = 400 =>
              /\ q_out.kind = "raised"
              /\ q_out.exc = "ValueError"
              /\ http_log[Len(http_log)] \in q_out.msg.urls
        /\ (q_resp.status \notin {400, 404, 414} /\ BeginsWithSentinel(q_resp.body)) =>
              /\ q_out.kind = "raised"
              /\ q_out.exc = "NoSitesError"
              /\ http_log[Len(http_log)] \in q_out.msg.urls

\* a 400 answer whose body begins with the sentinel was reported as a bad request
C8_Witness ==
    /\ Answered
    /\ q_resp.status = 400
    /\ BeginsWithSentinel(q_resp.body)
    /\ q_out.exc = "ValueError"

\* C9: query raises for every error status (4xx, 5xx): it never returns the
\* response of a failed request to its caller.
C9_EveryBadStatusRaises ==
    (Answered /\ q_resp.status >= 400) => q_out.kind = "raised"

\* what the claim says a parameter value is sent as
ClaimedParam(v, delimiter) ==
    IF v.t \in {"list", "series", "index"}
    THEN join([i \in 1..Len(v.xs) |-> py_str(v.xs[i])], delimiter)
    ELSE py_str(v)

\* C10: every parameter the caller gave with a non-null value is in the request:
\* a list-like value as its elements joined by the delimiter, a string
\* unchanged, any other scalar as its string form.
C10_ParametersStringified ==
    (qpc # "idle") =>
        /\ Len(http_log) = 1
        /\ \A k \in DOMAIN q_in.payload :
              q_in.payload[k].t # "none" =>
                  /\ k \in DOMAIN http_log[1].params
                  /\ http_log[1].params[k] = ClaimedParam(q_in.payload[k], q_in.delimiter)

(***************************************************************************)
(* Vocabulary of the claims about top-level calls.                         *)
(***************************************************************************)
Called == apc # "idle"

\* the filters of either service family, in every spelling the code reads
MajorFilterKeys ==
    {"sites", "site_no", "stateCd", "state_cd", "bBox", "huc", "countyCd",
     "nw_longitude_va", "nw_latitude_va", "se_longitude_va", "se_latitude_va"}

NoMajorFilterGiven ==
    /\ call.fn \in {"query_waterservices", "query_waterdata", "get_dv", "get_iv",
                    "get_gwlevels", "get_stats", "get_discharge_measurements",
                    "get_discharge_peaks", "get_qwdata"}
    /\ call.sites = NoneV
    /\ (DOMAIN call.kw) \cap MajorFilterKeys = {}

\* C5: building the metadata object issues no request: as long as the caller
\* has not accessed site_info or variable_info, no secondary lookup request has
\* been issued and the call has issued at most its own request.
C5_MetadataConstructionIsLazy ==
    accesses = <<>> => (lookups = <<>> /\ Len(http_log) <= 1)

\* a getter has returned its NWIS_Metadata, holding a site list, and nothing was accessed
C5_Witness ==
    /\ apc = "returned"
    /\ md.cls = "NWIS_Metadata"
    /\ "sites" \in DOMAIN md.parameters
    /\ md.parameters["sites"] = Str("01491000")
    /\ accesses = <<>>
    /\ Len(http_log) = 1

\* C6: a call that gives no major filter raises TypeError before any HTTP
\* request is issued, for query_waterservices and query_waterdata and for the
\* public getters built on them.
C6_NoMajorFilterRaisesBeforeRequest ==
    (Called /\ NoMajorFilterGiven) =>
        /\ apc = "raised"
        /\ api_out.exc = "TypeError"
        /\ http_log = <<>>

UnsupportedProfile ==
    /\ call.fn = "get_samples"
    /\ \/ call.service \notin SERVICES
       \/ call.profile \notin PROFILE_LOOKUP[call.service]

UnrecognizedService ==
    \/ call.fn = "get_record"
         /\ call.service \notin WATERSERVICES_SERVICES \cup WATERDATA_SERVICES
    \/ call.fn = "query_waterservices" /\ call.service \notin WATERSERVICES_SERVICES
    \/ call.fn = "query_waterdata" /\ call.service \notin WATERDATA_SERVICES

\* C7: a call naming an unsupported service, or a profile not valid for its
\* service, raises before any HTTP request: get_samples raises ValueError, and
\* get_record, query_waterservices and query_waterdata raise TypeError.
C7_UnsupportedServiceRaisesBeforeRequest ==
    /\ (Called /\ UnsupportedProfile) =>
          /\ apc = "raised"
          /\ api_out.exc = "ValueError"
          /\ http_log = <<>>
    /\ (Called /\ UnrecognizedService) =>
          /\ apc = "raised"
          /\ api_out.exc = "TypeError"
          /\ http_log = <<>>

\* get_samples was called with a profile of another service and has raised
C7_Witness ==
    /\ call.fn = "get_samples"
    /\ call.service = "results"
    /\ call.profile = "site"
    /\ apc = "raised"
    /\ api_out.exc = "ValueError"


(***************************************************************************)
(* Vocabulary of the claims about the lazy properties.                     *)
(***************************************************************************)
SiteKeyPrecedence == <<"site_no", "sites", "stateCd", "huc", "countyCd", "bBox">>
SiteKeysPresent(parameters) ==
    {i \in 1..Len(SiteKeyPrecedence) : SiteKeyPrecedence[i] \in DOMAIN parameters}
HighestSiteKey(parameters) ==
    SiteKeyPrecedence[CHOOSE i \in SiteKeysPresent(parameters) :
                          \A j \in SiteKeysPresent(parameters) : i <= j]
\* the name under which what_sites is given the value of a key
LookupName(k) == IF k = "site_no" THEN "sites" ELSE k
\* this step is an access of prop
AccessStep(prop) ==
    /\ Len(accesses') = Len(accesses) + 1
    /\ accesses'[Len(accesses')].prop = prop
LastAccess == accesses'[Len(accesses')]
Available(prop) ==
    /\ md.cls = "NWIS_Metadata"
    /\ IF prop = "site_info" THEN SiteKeysPresent(md.parameters) # {}
       ELSE "parameterCd" \in DOMAIN md.parameters

\* C11: an access of site_info on an NWIS_Metadata object whose parameters hold
\* one or more of site_no, sites, stateCd, huc, countyCd, bBox issues exactly one
\* request, to the site service, and of these keys the request carries none but
\* the one of highest precedence (site_no is sent as sites), with the value the
\* parameters hold for it.
C11_SiteInfoPrecedence ==
    [][(AccessStep("site_info") /\ Available("site_info")) =>
        LET k == HighestSiteKey(md.parameters)
            v == md.parameters[k]
        IN
        /\ Len(lookups') = Len(lookups) + 1
        /\ LET r == lookups'[Len(lookups')] IN
            /\ r.url = WATERSERVICE_URL \o "site"
            /\ (DOMAIN r.params) \cap {LookupName(SiteKeyPrecedence[i]) :
                                          i \in 1..Len(SiteKeyPrecedence)}
                    \subseteq {LookupName(k)}
            /\ v.t = "str" => /\ LookupName(k) \in DOMAIN r.params
                              /\ r.params[LookupName(k)] = v.s
      ]_vars

C11_Witness ==
    /\ md.cls = "NWIS_Metadata"
    /\ Cardinality(SiteKeysPresent(md.parameters)) >= 3
    /\ HighestSiteKey(md.parameters) = "site_no"
    /\ md.parameters["site_no"].t = "str"
    /\ Len(accesses) >= 1
    /\ accesses[1].prop = "site_info"
    /\ accesses[1].result = "returned"
    /\ Len(lookups) >= 1
    /\ "sites" \in DOMAIN lookups[1].params

\* C12 as stated: an access of site_info on a metadata object (BaseMetadata or
\* NWIS_Metadata) whose parameters hold none of the six keys raises
\* NotImplementedError and issues no request.
C12_NoKeyRaisesNotImplemented ==
    [][(AccessStep("site_info") /\ SiteKeysPresent(md.parameters) = {}) =>
        /\ LastAccess.result = "raised"
        /\ LastAccess.exc = "NotImplementedError"
        /\ lookups' = lookups
        /\ http_log' = http_log
      ]_vars

\* C12 as the code has it: such an access issues no request; on a BaseMetadata
\* object it raises NotImplementedError, on an NWIS_Metadata object it returns
\* None.
C12_NoKeyIssuesNoRequest ==
    [][(AccessStep("site_info") /\ SiteKeysPresent(md.parameters) = {}) =>
        /\ lookups' = lookups
        /\ http_log' = http_log
        /\ md.cls = "BaseMetadata" => /\ LastAccess.result = "raised"
                                      /\ LastAccess.exc = "NotImplementedError"
        /\ md.cls = "NWIS_Metadata" => LastAccess.result = "none"
      ]_vars

C12_Witness ==
    /\ md.cls = "NWIS_Metadata"
    /\ SiteKeysPresent(md.parameters) = {}
    /\ Len(accesses) >= 1
    /\ accesses[1].prop = "site_info"
    /\ accesses[1].result = "none"
    /\ lookups = <<>>

Applied(fn) == ppc = "done" /\ p_in.fn = fn
SiteValues(df) == {df.rows[i]["site_no"] : i \in 1..Len(df.rows)}

\* C14: format_response applied to a table with a datetime column returns a
\* table indexed by datetime alone when the table holds exactly one distinct
\* site_no value, and indexed by (site_no, datetime) when it holds more than
\* one and multi_index is true.
C14_IndexBySiteCount ==
    (Applied("format_response") /\ HasCol(p_in.df, "datetime") /\ HasCol(p_in.df, "site_no")) =>
        /\ ~p_out.raised
        /\ Cardinality(SiteValues(p_in.df)) = 1 => p_out.df.index = <<"datetime">>
        /\ (Cardinality(SiteValues(p_in.df)) > 1 /\ p_in.mi) =>
                p_out.df.index = <<"site_no", "datetime">>

C14_Witness ==
    /\ Applied("format_response")
    /\ HasCol(p_in.df, "datetime")
    /\ Cardinality(SiteValues(p_in.df)) = 2
    /\ p_in.mi
    /\ Len(p_in.df.rows) = 3
    /\ p_out.df.index = <<"site_no", "datetime">>

\* the number of lines from the start that begin with '#'
LeadingComments(lines) ==
    CHOOSE n \in 0..Len(lines) :
        /\ \A i \in 1..n : lines[i].hash
        /\ n < Len(lines) => ~lines[n + 1].hash

\* C15: the comment count of _read_rdb is the number of lines from the start
\* that begin with '#'; when a line follows them, the column names are the
\* fields of that line and the rows are the lines from the second line after it.
C15_CommentCountAndOffset ==
    Applied("_read_rdb") =>
        LET lines == p_in.rdb
            n == LeadingComments(lines)
            names == [j \in 1..Len(lines[n + 1].fields) |-> field_text(lines[n + 1], j)]
            data_col(c) == c \notin Range(p_out.df.index)
        IN
        /\ comment_count(lines) = n
        /\ n < Len(lines) =>
            /\ ~p_out.raised
            /\ Range(p_out.df.cols) \cup Range(p_out.df.index) = Range(names)
            /\ p_out.df.cols = SelectSeq(names, data_col)
            /\ Len(p_out.df.rows) = Len(lines) - (n + 2)
            /\ \A i \in (n + 3)..Len(lines) :
                \E k \in 1..Len(p_out.df.rows) :
                    p_out.df.rows[k]["site_no"] = Str(first_text(lines[i]))

C15_Witness ==
    /\ Applied("_read_rdb")
    /\ LeadingComments(p_in.rdb) = 0
    /\ Len(p_in.rdb) = 5
    /\ \E i \in 3..5 : p_in.rdb[i].hash
    /\ ~p_out.raised
    /\ Len(p_out.df.rows) = 3

NonEmptySeries(ts) ==
    {i \in 1..Len(ts) : \E g \in 1..Len(ts[i].values) : ts[i].values[g].value # <<>>}
\* the (site, time stamp) pairs reported by series i
PairsOf(ts, i) ==
    UNION {{<<ts[i].site, ts[i].values[g].value[k].dateTime>> :
                k \in 1..Len(ts[i].values[g].value)} : g \in 1..Len(ts[i].values)}
AllPairs(ts) == UNION {PairsOf(ts, i) : i \in 1..Len(ts)}
\* the column names series i yields
NamesOf(ts, i) ==
    {col_name(ts[i].param, ts[i].values[g].method, ts[i].option) :
        g \in {h \in 1..Len(ts[i].values) : ts[i].values[h].value # <<>>}}
RowsAt(df, pair) ==
    {k \in 1..Len(df.rows) : /\ df.rows[k]["site_no"] = Str(pair[1])
                             /\ df.rows[k]["datetime"] = to_datetime_utc(Str(pair[2]))}
\* the value series i reports at a time stamp
ValueAt(ts, i, d) ==
    LET g == CHOOSE h \in 1..Len(ts[i].values) :
                 \E k \in 1..Len(ts[i].values[h].value) : ts[i].values[h].value[k].dateTime = d
        k == CHOOSE j \in 1..Len(ts[i].values[g].value) : ts[i].values[g].value[j].dateTime = d
    IN IntV(ts[i].values[g].value[k].value)

\* C16: the table _read_json returns has exactly one row for every (site_no,
\* datetime) pair some series reports and no other row, wherever in the sequence
\* the series of a site stand; a series that lacks a pair its site has leaves a
\* null cell in its column.
C16_OneRowPerSiteTimePair ==
    Applied("_read_json") =>
        LET ts == p_in.timeSeries IN
        /\ ~p_out.raised
        /\ Len(p_out.df.rows) = Cardinality(AllPairs(ts))
        /\ \A pair \in AllPairs(ts) : Cardinality(RowsAt(p_out.df, pair)) = 1
        /\ \A i \in 1..Len(ts) : \A c \in NamesOf(ts, i) : \A pair \in AllPairs(ts) :
                (/\ pair[1] = ts[i].site
                 /\ pair \notin PairsOf(ts, i)
                 /\ HasCol(p_out.df, c)
                 /\ \A j \in 1..Len(ts) : (j # i /\ ts[j].site = ts[i].site)
                                             => c \notin NamesOf(ts, j))
                => \A k \in RowsAt(p_out.df, pair) : p_out.df.rows[k][c] = NoneV

\* two series of one site that yield the same column name
Colliding(ts, i, j) ==
    /\ i < j
    /\ ts[i].site = ts[j].site
    /\ NamesOf(ts, i) \cap NamesOf(ts, j) # {}

\* C17: when two series of one site yield the same column name, the table
\* _read_json returns has one column of that name, and at every time stamp both
\* series report the cell holds the value of the series processed last.
C17_LaterSeriesWins ==
    Applied("_read_json") =>
        LET ts == p_in.timeSeries IN
        \A i, j \in 1..Len(ts) : Colliding(ts, i, j) =>
            /\ ~p_out.raised
            /\ \A c \in NamesOf(ts, i) \cap NamesOf(ts, j) :
                /\ HasCol(p_out.df, c)
                /\ (\A l \in 1..Len(ts) : l > j => ~Colliding(ts, j, l)) =>
                     \A pair \in PairsOf(ts, i) \cap PairsOf(ts, j) :
                        \A k \in RowsAt(p_out.df, pair) :
                            p_out.df.rows[k][c] = ValueAt(ts, j, pair[2])

DerivedNames(n) ==
    {n, n \o "_cd", n \o "_x", n \o "_cd_x", n \o "_y", n \o "_cd_y"}

\* C18: a series with an empty value list adds nothing to the table _read_json
\* returns and raises nothing: every row and every column comes from a series
\* with values, an error comes from two series with values, and a document
\* whose series are all empty (or that has none) yields the empty table.
C18_EmptySeriesSkipped ==
    Applied("_read_json") =>
        LET ts == p_in.timeSeries
            full == NonEmptySeries(ts)
        IN
        /\ full = {} => /\ ~p_out.raised
                        /\ p_out.df.rows = <<>>
                        /\ p_out.df.cols = <<"site_no", "datetime">>
        /\ p_out.raised => \E i, j \in full : Colliding(ts, i, j)
        /\ ~p_out.raised =>
            /\ \A k \in 1..Len(p_out.df.rows) :
                 \E i \in full : \E pair \in PairsOf(ts, i) : k \in RowsAt(p_out.df, pair)
            /\ \A c \in Range(p_out.df.cols) \ {"site_no", "datetime"} :
                 \E i \in full : \E n \in NamesOf(ts, i) : c \in DerivedNames(n)

C18_Witness ==
    /\ Applied("_read_json")
    /\ Len(p_in.timeSeries) = 3
    /\ Cardinality(NonEmptySeries(p_in.timeSeries)) = 1
    /\ p_in.timeSeries[2].values[1].value # <<>>
    /\ ~p_out.raised
    /\ Len(p_out.df.rows) = 2

\* the table of the features the walk returned for the call
Walked ==
    features_frame(p_in.service,
                   switch_properties_id(p_in.properties, p_in.output_id, p_in.service),
                   p_in.skip_geometry, p_in.geopd, p_in.n)

\* C19: given a non-empty property list, the columns of the table get_ogc_data
\* returns are the requested properties in the requested order, a requested
\* 'id' under the service-specific id name, followed by geometry when the
\* result of the walk has that column and the list does not name it.
C19_ColumnsAreRequestedProperties ==
    (Applied("get_ogc_data") /\ p_in.properties # <<>> /\ ~p_out.raised) =>
        LET shown == [i \in 1..Len(p_in.properties) |->
                         IF p_in.properties[i] = "id" THEN p_in.output_id
                         ELSE p_in.properties[i]]
        IN p_out.df.cols =
              shown \o (IF HasCol(Walked, "geometry") /\ "geometry" \notin Range(p_in.properties)
                        THEN <<"geometry">> ELSE <<>>)

(***************************************************************************)
(* C20                                                                     *)
(***************************************************************************)
SameCall(a, b) ==
    /\ a.data_source = b.data_source
    /\ a.catalogue = b.catalogue
    /\ a.features = b.features

\* C20: there is no shared mutable state across calls: two calls with the same
\* arguments and the same service answers issue the same requests and end in
\* the same result or error whatever calls came before them, and a value
\* returned by an earlier call still reads as it did when it was returned.
C20_NoSharedMutableState ==
    /\ \A i, j \in DOMAIN nldi_calls :
           SameCall(nldi_calls[i], nldi_calls[j])
           => /\ nldi_calls[i].requests = nldi_calls[j].requests
              /\ nldi_calls[i].outcome = nldi_calls[j].outcome
    /\ \A i, j \in DOMAIN base_urls : base_urls[i] = base_urls[j]
    /\ \A i \in DOMAIN watersheds :
           watersheds[i].kind # "raised"
           => workspace_of(watersheds[i], watershed_cls) = watersheds[i].workspaceID

\* the three parts of C20, one by one
C20_NldiOutcomesIndependent ==
    \A i, j \in DOMAIN nldi_calls :
        SameCall(nldi_calls[i], nldi_calls[j])
        => nldi_calls[i].outcome = nldi_calls[j].outcome
C20_ReturnedWatershedsKept ==
    \A i \in DOMAIN watersheds :
        watersheds[i].kind # "raised"
        => workspace_of(watersheds[i], watershed_cls) = watersheds[i].workspaceID
C20_BaseUrlIndependent == \A i, j \in DOMAIN base_urls : base_urls[i] = base_urls[j]

(***************************************************************************)
(* C21                                                                     *)
(***************************************************************************)
\* C21: every error raised for a failed request carries, in its message, the
\* offending request (its URL and parameter set): whenever query raises after
\* the service answered, the request it sent is in the message.
C21_ErrorsCarryRequest ==
    (Answered /\ q_out.kind = "raised") => http_log[Len(http_log)] \in q_out.msg.urls

\* the same, leaving the 414 answer out
C21_ErrorsCarryRequestExcept414 ==
    (Answered /\ q_out.kind = "raised" /\ q_resp.status # 414)
    => http_log[Len(http_log)] \in q_out.msg.urls

(***************************************************************************)
(* C22                                                                     *)
(***************************************************************************)
\* the response object the walk received for its i-th request: its url, and i
\* for what belongs to that response alone (elapsed, headers)
ResponseAt(i) == [url |-> sent[i].url, elapsed |-> i, headers |-> i]

\* C22: the response returned by the walker is the one of the first page, and
\* so the metadata built from it has the URL of the prepared request, for any
\* number of pages walked and also when a later page failed.
C22_MetadataFromFirstPage ==
    wpc = "returned" =>
        /\ walk_out.response = 1
        /\ metadata_init("BaseMetadata", ResponseAt(walk_out.response), EmptyDict).md.url
               = req.url

\* a walk that returned after its third request was refused
C22_Witness ==
    /\ wpc = "returned"
    /\ Len(pages) = 3
    /\ pages[3].kind = "resp"
    /\ pages[3].status = 429
    /\ Len(warned) = 1
    /\ sent[3].url # sent[1].url
    /\ walk_out.response = 1

(***************************************************************************)
(* C23                                                                     *)
(***************************************************************************)
\* C23: get_ogc_data does not mutate its input: after the call returns, the
\* caller's properties list has the same elements in the same order as before.
C23_InputNotMutated ==
    (Applied("get_ogc_data") /\ ~p_out.raised) => p_out.properties = p_in.properties

\* the same for calls whose list neither names 'id' nor lacks a geometry
\* column that the table has
C23_InputNotMutatedWithoutIdAndGeometry ==
    (/\ Applied("get_ogc_data")
     /\ ~p_out.raised
     /\ "id" \notin Range(p_in.properties)
     /\ (p_in.skip_geometry \/ "geometry" \in Range(p_in.properties)
         \/ p_in.properties = <<>>))
    => p_out.properties = p_in.properties

(***************************************************************************)
(* C24                                                                     *)
(***************************************************************************)
\* a peak date that is a calendar date
UsableDate(v) == v.t = "str" /\ v.s \in {"1991-06-15", "1992-07-01"}
UsableRows(df) == LET usable(r) == UsableDate(r["peak_dt"]) IN SelectSeq(df.rows, usable)

\* C24: preformat_peaks_response discards exactly the rows whose peak date
\* cannot be parsed: the result has one row for every input row with a usable
\* peak_dt, in the same order and with the same values, no row with a null
\* datetime, and a datetime column.
C24_PeaksWithoutDateDiscarded ==
    Applied("preformat_peaks_response") =>
        /\ ~p_out.raised
        /\ HasCol(p_out.df, "datetime")
        /\ Len(p_out.df.rows) = Len(UsableRows(p_in.df))
        /\ \A i \in 1..Len(p_out.df.rows) :
              /\ p_out.df.rows[i]["datetime"] # NoneV
              /\ p_out.df.rows[i]["peak_va"] = UsableRows(p_in.df)[i]["peak_va"]
              /\ p_out.df.rows[i]["datetime"]
                    = to_datetime_coerce(UsableRows(p_in.df)[i]["peak_dt"])

\* three rows, the second dated 1991-00-00 and the third undated: one row is left
C24_Witness ==
    /\ Applied("preformat_peaks_response")
    /\ Len(p_in.df.rows) = 3
    /\ p_in.df.rows[1]["peak_dt"] = Str("1991-06-15")
    /\ p_in.df.rows[2]["peak_dt"] = Str("1991-00-00")
    /\ p_in.df.rows[3]["peak_dt"] = NoneV
    /\ Len(p_out.df.rows) = 1

(***************************************************************************)
(* C25                                                                     *)
(***************************************************************************)
\* a row whose date, time or time zone cannot be parsed
Unparseable(r) ==
    \/ r["lev_dt"].t # "str" \/ r["lev_dt"].s \notin CalendarDates
    \/ r["lev_tm"].t # "str" \/ r["lev_tm"].s \notin ClockTimes
    \/ r["lev_tz_cd"].t # "str" \/ r["lev_tz_cd"].s \notin DOMAIN tz
\* a row with a date or time that is present and malformed
Malformed(r) ==
    \/ r["lev_dt"].t = "str" /\ r["lev_dt"].s \notin CalendarDates
    \/ r["lev_tm"].t = "str" /\ r["lev_tm"].s \notin ClockTimes
UnparseableCount(df) == Cardinality({i \in 1..Len(df.rows) : Unparseable(df.rows[i])})

\* what C25 says of one call of format_datetime
KeepsRowsAndWarns ==
    /\ ~p_out.raised
    /\ Len(p_out.df.rows) = Len(p_in.df.rows)
    /\ \A i \in 1..Len(p_in.df.rows) :
          Unparseable(p_in.df.rows[i]) <=> p_out.df.rows[i]["datetime"] = NoneV
    /\ p_out.warnings = IF UnparseableCount(p_in.df) > 0
                        THEN <<UnparseableCount(p_in.df)>> ELSE <<>>

\* C25: format_datetime never removes rows: it returns as many rows as it
\* received, a row whose date, time or time zone cannot be parsed keeps a null
\* timestamp, and a warning is emitted exactly when there is such a row, with
\* their exact count.
C25_UnparseableRowsKeptWithWarning ==
    Applied("format_datetime") => KeepsRowsAndWarns

\* the same for tables whose unparseable rows have a missing date or time or
\* an unknown time zone code, and no malformed text
C25_MissingValuesKeptWithWarning ==
    (Applied("format_datetime")
     /\ \A i \in 1..Len(p_in.df.rows) : ~Malformed(p_in.df.rows[i]))
    => KeepsRowsAndWarns

(***************************************************************************)
(* C26                                                                     *)
(***************************************************************************)
\* C26: every request after the first within one walk has the method and the
\* headers of the prepared request, its body when the method is POST and no
\* body when it is GET, and the next-link href of the page received just
\* before as its URL.
C26_LaterRequestsReuseFirst ==
    \A i \in 2..Len(sent) :
        /\ sent[i].method = req.method
        /\ sent[i].headers = req.headers
        /\ sent[i].body = (IF req.method = "POST" THEN req.body ELSE "<no body>")
        /\ sent[i].method = sent[1].method
        /\ sent[i].headers = sent[1].headers
        /\ sent[i].body = sent[1].body
        /\ HasNextLink(pages[i - 1])
        /\ sent[i].url = NextLinkHref(pages[i - 1])

\* a walk of three POST requests, each later one to the href of the page before
C26_Witness ==
    /\ Len(sent) = 3
    /\ req.method = "POST"
    /\ sent[3].body = "cql2"
    /\ sent[2].url # sent[3].url
    /\ sent[3].url = NextLinkHref(pages[2])

(***************************************************************************)
(* C27                                                                     *)
(***************************************************************************)
\* the filter arguments the claim calls multi-valued
MultiValuedFilters(kwargs) ==
    {k \in DOMAIN kwargs : k \notin {"datetime", "last_modified", "begin", "end", "time"}
                           /\ kwargs[k].t = "list" /\ Len(kwargs[k].xs) > 1}

\* what C27 says of one request built
PostIffMultiValued ==
    /\ ~p_out.raised
    /\ p_out.method = (IF MultiValuedFilters(p_in.kwargs) # {} THEN "POST" ELSE "GET")
    /\ p_out.method = "GET" => p_out.body = NoBody
    /\ p_out.method = "POST" =>
          /\ DOMAIN p_out.body.args = MultiValuedFilters(p_in.kwargs)
          /\ \A k \in DOMAIN p_out.body.args : p_out.body.args[k] = p_in.kwargs[k]
    /\ \A k \in DOMAIN p_in.kwargs :
          k \in DOMAIN p_out.params <=> k \notin MultiValuedFilters(p_in.kwargs)

\* C27: the request is a POST exactly when a filter argument other than the
\* five time arguments has a list value of more than one element; exactly
\* those arguments are in the body and none of them in the URL query, every
\* other argument is in the URL query; otherwise it is a GET without body.
C27_PostIffMultiValuedFilter ==
    Applied("_construct_api_requests") => PostIffMultiValued

\* a time argument, when given, is one _format_api_dates can format
TimeArgumentsFormatted ==
    \A k \in DOMAIN p_in.kwargs \cap time_periods :
        format_api_dates(p_in.kwargs[k], FALSE).t = "str"

\* the same for calls whose time arguments can be formatted
C27_PostIffMultiValuedFilterFormattedTimes ==
    (Applied("_construct_api_requests") /\ TimeArgumentsFormatted) => PostIffMultiValued

(***************************************************************************)
(* C28                                                                     *)
(***************************************************************************)
\* C28: after any sequence of earlier NLDI calls, _validate_data_source raises
\* for a data source that is not one of the service's available data sources,
\* whether or not the list of available data sources was already filled.
C28_InvalidDataSourceAlwaysRejected ==
    \A i \in DOMAIN nldi_calls :
        nldi_calls[i].data_source \notin Range(AvailableSources) => nldi_calls[i].rejected

\* the same for the calls made while the list was still empty
C28_InvalidDataSourceRejectedOnEmptyCache ==
    \A i \in DOMAIN nldi_calls :
        (nldi_calls[i].data_source \notin Range(AvailableSources) /\ ~nldi_calls[i].cached)
        => nldi_calls[i].rejected

(***************************************************************************)
(* C29                                                                     *)
(***************************************************************************)
WalkLeft == wpc \in {"returned", "raised"}

\* C29: on every way out of the walker (return, first-page error, exception
\* while a later page is processed) the session is closed if and only if the
\* walker created it; a session of the caller is never closed, and no session
\* is closed while the walk is going on.
C29_SessionClosedIffOwned ==
    /\ WalkLeft => (client_open <=> ~close_client)
    /\ ~WalkLeft => client_open
    /\ ~close_client => client_open

\* an exception left the walker at its second page and the caller's session is
\* still open
C29_Witness ==
    /\ wpc = "raised"
    /\ Len(pages) = 2
    /\ walk_out.exc = "UnboundLocalError"
    /\ ~close_client
    /\ client_open

\* the walker closed the session it created: after a return, after a first-page
\* error
C29_OwnedClosedAfterReturn == wpc = "returned" /\ close_client /\ ~client_open
C29_OwnedClosedAfterFirstPageError ==
    wpc = "raised" /\ Len(pages) = 1 /\ close_client /\ ~client_open

(***************************************************************************)
(* C30                                                                     *)
(***************************************************************************)
\* the major filters other than the site argument that the caller gave
GivenFilters == (DOMAIN call.kw) \cap {"stateCd", "huc", "countyCd", "bBox"}

\* a getter of the water services was called with its site argument left unset
\* and another major filter given
SitesUnsetFilterGiven ==
    /\ call.fn \in WsGetters
    /\ call.sites = NoneV
    /\ "site_no" \notin DOMAIN call.kw
    /\ GivenFilters # {}

\* the lookup issued in this step carries a filter the caller gave
LookupCarriesGivenFilter ==
    /\ Len(lookups') = Len(lookups) + 1
    /\ \E k \in GivenFilters :
          /\ k \in DOMAIN lookups'[Len(lookups')].params
          /\ lookups'[Len(lookups')].params[k] = call.kw[k].s

\* C30: when a getter is called with its site argument left unset and another
\* major filter given, an access of site_info on the returned metadata issues
\* its site lookup with a filter the caller gave.
C30_SiteInfoUsesGivenFilter ==
    [][(AccessStep("site_info") /\ SitesUnsetFilterGiven) => LookupCarriesGivenFilter]_vars

\* the same for get_stats alone, which gives its metadata no sites key
C30_GetStatsUsesGivenFilter ==
    [][(AccessStep("site_info") /\ SitesUnsetFilterGiven /\ call.fn = "get_stats")
        => LookupCarriesGivenFilter]_vars

====
